---- MODULE Spec2Model ----
(***************************************************************************)
(* Model of the link audit service of Ayban-17/audit-api.                  *)
(*                                                                         *)
(*   src/routes/article_audit.js  batch audit: router.post('/') runs       *)
(*       processSingleUrl for every seed URL under pLimit(2); every crawl  *)
(*       submits its Validator and Checker calls to the module-wide        *)
(*       pLimit(5).                                                        *)
(*   src/routes/audit_script.js   single-URL audit: router.post('/') is    *)
(*       one crawl; concurrent requests share that module's pLimit(5).     *)
(*                                                                         *)
(* Node runs one callback at a time and drains the promise continuations   *)
(* (microtasks) before it delivers the next I/O callback.  The actions are *)
(* therefore the synchronous segments of the handlers between two awaits;  *)
(* the continuations (gate admission, the code after Promise.allSettled)   *)
(* are actions of their own that take priority over every network event.   *)
(***************************************************************************)
EXTENDS Integers, Sequences, FiniteSets, TLC

VARIABLES
    mode,         \* "batch": article_audit.js serves; "single": audit_script.js
    bodyKind,     \* batch: shape of req.body ("ok", "nobody", "nourls", "notarray")
    urls,         \* batch: req.body.urls; single: req.body.url of request i ("" = missing)
    hpc,          \* batch handler: "start", "awaiting", "done"
    batchQueue,   \* batchConcurrencyLimit: queued crawls, FIFO
    batchActive,  \* batchConcurrencyLimit: activeCount
    crawl,        \* per crawl: position, link list, Validator and Checker tasks
    linkQueue,    \* concurrencyLimit: queued tasks <<crawl, phase, index>>, FIFO
    linkActive,   \* concurrencyLimit: activeCount
    resp,         \* per request: the response sent ([status |-> 0] = none yet)
    call          \* one Checker call on its own: the URL name, the page its GET
                  \* received and the object it returned

vars == <<mode, bodyKind, urls, hpc, batchQueue, batchActive, crawl,
          linkQueue, linkActive, resp, call>>

----------------------------------------------------------------------------
(* Bounds of the exploration *)

\* Number of destination links on the large page (two such crawls together
\* offer more tasks than the link gate admits).
BigPageLinks == 5

\* Longest path, in segments, of the URLs given to the extraction alone
MaxSegments == 4

\* Most words of an anchor text given to the extraction alone
MaxWords == 3

\* Most anchors of a region of the pages given to the extraction alone
MaxAnchors == 2

\* Most characters of the path segment and of an option given to the
\* tour-activity Checker alone
MaxChars == 2

\* Most words of the URL name given to the cruise-ship Checker alone
MaxNameWords == 3

----------------------------------------------------------------------------
(* Program constants *)

ConcurrencyLimitMutant == 5 + 1
ConcurrencyLimit == 5

BatchConcurrencyLimitMutant == 2 + 1
BatchConcurrencyLimit == 2

MaxBatchUrlsMutant == 20 + 1
MaxBatchUrls == 20

\* JavaScript null and undefined; booleans of a link are kept as strings so
\* that a field can hold null, true or false.
Null == "null"
Undefined == "undefined"
NullStatus == -1
UndefinedStatus == -2

----------------------------------------------------------------------------
(* URLs.  A URL is its host and its path segments; ok = FALSE is a string  *)
(* that new URL() rejects.                                                 *)

Url(host, segs) == [ok |-> TRUE, host |-> host, segs |-> segs]
BadUrl == [ok |-> FALSE, host |-> "", segs |-> <<>>]
NoUrl == [ok |-> FALSE, host |-> "", segs |-> <<"missing">>]
Site(segs) == Url("www.adventure-life.com", segs)

\* What the regular expressions and substring tests of categorizeUrl see in a
\* path segment.
DigitSegments == {"18055", "123", "42"}
HasDigitSegments == DigitSegments \cup {"5-day-trek"}
WrongContactSegmentsMutant == {}
WrongContactSegments == {"contactt"}
ContactSegments == {"contact", "contact-us", "get-in-touch", "contactt"}

specialKeywords == {"land-tours", "ships", "videos", "myTrips", "tours", "cruises",
                    "hotels", "deals", "info", "articles", "stories"}
nonDestinationKeywords == {"articles", "stories", "deals", "tours", "cruises",
                           "operators", "forms"}

SegSet(segs) == {segs[i] : i \in 1..Len(segs)}

\* segments.indexOf(name), 1-based; 0 when absent
IndexOf(segs, name) ==
    IF name \in SegSet(segs)
    THEN CHOOSE i \in 1..Len(segs) :
            segs[i] = name /\ \A j \in 1..(i - 1) : segs[j] # name
    ELSE 0

DestinationCategory(n) ==
    CASE n = 1 -> "multi-level/destination-1"
      [] n = 2 -> "multi-level/destination-2"
      [] n = 3 -> "multi-level/destination-3"
      [] OTHER -> "multi-level/destination-N"

\* The try block of categorizeUrl; url.segs is cleanPath.split('/') of the
\* parsed URL.
categorizeParsed(url) ==
    LET segs == url.segs
        n == Len(segs)
        lastSegment == segs[n]
        toursIndex == IndexOf(segs, "tours")
    IN  IF url.host \notin {"www.adventure-life.com", "adventure-life.com"}
             THEN "external-link"
        ELSE IF \E i \in 1..n : segs[i] \in WrongContactSegments
             THEN "wrong-contact-path"
        ELSE IF \E i \in 1..n : segs[i] \in ContactSegments
             THEN "contact-page"
        ELSE IF n >= 3 /\ segs[1] = "cruises" /\ segs[2] \in DigitSegments
             THEN "cruise-ship"
        ELSE IF \E i \in 2..(n - 2) : segs[i] = "cruises" /\ segs[i + 1] \in DigitSegments
             THEN "cruise-with-id"
        ELSE IF lastSegment \in specialKeywords
             THEN "destination-special-page"
        ELSE IF "articles" \in SegSet(segs) /\ n > 1
             THEN "multi-level/articles/article-name"
        ELSE IF "stories" \in SegSet(segs) /\ n > 1
             THEN "multi-level/stories/story-name"
        ELSE IF lastSegment = "stories" /\ n = 1
             THEN "multi-level/stories"
        ELSE IF n >= 2 /\ segs[1] = "operators"
                /\ \E i \in 2..(n - 1) : segs[i] \in DigitSegments
             THEN "operator-with-id"
        ELSE IF \E i \in 2..(n - 1) : segs[i] = "tours"
             THEN IF toursIndex < n /\ segs[toursIndex + 1] \in HasDigitSegments
                  THEN "tour-with-id"
                  ELSE "tour-activity"
        ELSE IF SegSet(segs) \cap nonDestinationKeywords = {}
             THEN DestinationCategory(n)
        ELSE "other"

categorizeUrlMutant(url) == categorizeParsed(url)

\* new URL(url) throws on a string it cannot parse and the catch block
\* answers for it.
categorizeUrl(url) == IF ~url.ok THEN "invalid-url" ELSE categorizeParsed(url)

IsDestination(category) ==
    category \in {DestinationCategory(1), DestinationCategory(2),
                  DestinationCategory(3), DestinationCategory(4)}

----------------------------------------------------------------------------
(* Validators and Checkers: the result object each returns for the outcome *)
(* of its single GET.  A status of 0 is a request that got no response     *)
(* (timeout, DNS, connection reset).                                       *)

\* threw: the function rejected instead of returning a result object.
\* resolvedUrl is the requested URL or the Location header of the response.
Requested == "requested"
Location == "location"

NoResult == [valid |-> Undefined, status |-> NullStatus, redirected |-> Undefined,
             resolvedUrl |-> Undefined, error |-> Undefined, available |-> Undefined,
             threw |-> FALSE]

RedirectStatuses == {301, 302, 303, 307, 308}

\* validateStatus of the Validators of audit_script.js
validateStatus(status) == status = 200

\* validateStatus of the Validators of article_audit.js
validateStatusBatch(status) == status >= 200 /\ status < 400

Accepted(status) ==
    IF mode = "single" THEN validateStatus(status) ELSE validateStatusBatch(status)

validateLinkMutant(status) ==
    IF Accepted(status)
    THEN [NoResult EXCEPT !.valid = "true", !.status = status, !.redirected = "false",
                          !.resolvedUrl = Requested]
    ELSE [NoResult EXCEPT !.threw = TRUE]

\* validateDestinationLink and its seven copies that differ in the message only
validateLink(status) ==
    IF Accepted(status)
    THEN [NoResult EXCEPT !.valid = "true", !.status = status, !.redirected = "false",
                          !.resolvedUrl = Requested]
    ELSE IF status \in RedirectStatuses
    THEN [NoResult EXCEPT !.valid = "false", !.status = status, !.redirected = "true",
                          !.resolvedUrl = Location,
                          !.error = "Redirected to: location"]
    ELSE [NoResult EXCEPT !.valid = "false", !.status = status, !.redirected = "false",
                          !.resolvedUrl = Requested,
                          !.error = "Request failed"]

validateWrongContactPathLinkMutant(status) ==
    IF Accepted(status)
    THEN [NoResult EXCEPT !.valid = "true", !.status = status, !.redirected = "false",
                          !.resolvedUrl = Requested]
    ELSE [NoResult EXCEPT !.valid = "false", !.status = status, !.redirected = "false",
                          !.resolvedUrl = Requested,
                          !.error = "Wrong contact path (/contactt) + Request failed"]

validateWrongContactPathLink(status) ==
    IF Accepted(status)
    THEN [NoResult EXCEPT !.valid = "false", !.status = status, !.redirected = "false",
                          !.resolvedUrl = Requested,
                          !.error = "Wrong contact path detected"]
    ELSE IF status \in RedirectStatuses
    THEN [NoResult EXCEPT !.valid = "false", !.status = status, !.redirected = "true",
                          !.resolvedUrl = Location,
                          !.error = "Wrong contact path + redirected to: location"]
    ELSE [NoResult EXCEPT !.valid = "false", !.status = status, !.redirected = "false",
                          !.resolvedUrl = Requested,
                          !.error = "Wrong contact path (/contactt) + Request failed"]

\* The Checkers use axios' default validateStatus: a status outside 200..299
\* throws.  signal: the page shows what the Checker looks for (a positive
\* price amount, a matching ship or activity option).
Threw(status) == status < 200 \/ status >= 300

checkCruiseAvailability(status, signal) ==
    IF Threw(status)
    THEN [NoResult EXCEPT !.available = "false", !.error = "Request failed"]
    ELSE IF status # 200
    THEN [NoResult EXCEPT !.available = "false", !.error = "HTTP status"]
    ELSE IF signal
    THEN [NoResult EXCEPT !.available = "true"]
    ELSE [NoResult EXCEPT !.available = "false"]

checkTourWithIdAvailability(status, signal) ==
    IF Threw(status)
    THEN [NoResult EXCEPT !.available = "false", !.error = "Request failed"]
    ELSE IF status # 200
    THEN [NoResult EXCEPT !.available = "false", !.error = "HTTP status"]
    ELSE IF signal
    THEN [NoResult EXCEPT !.available = "true", !.error = Null]
    ELSE [NoResult EXCEPT !.available = "false", !.error = Null]

\* checkTourActivityAvailability, checkCruiseShipAvailability
checkOptionAvailability(status, signal) ==
    IF Threw(status)
    THEN [NoResult EXCEPT !.available = "false", !.error = "Request failed"]
    ELSE IF status # 200
    THEN [NoResult EXCEPT !.available = "false", !.error = "HTTP status"]
    ELSE IF signal
    THEN [NoResult EXCEPT !.available = "true", !.error = Null]
    ELSE [NoResult EXCEPT !.available = "false", !.error = Null]

\* checkStoryAvailability, checkContactPageAvailability, checkExternalLinkAvailability
checkPageAvailability(status, signal) ==
    IF Threw(status)
    THEN [NoResult EXCEPT !.available = "false", !.error = "Request failed"]
    ELSE IF status # 200
    THEN [NoResult EXCEPT !.available = "false", !.error = "HTTP status"]
    ELSE [NoResult EXCEPT !.available = "true", !.error = Null]

----------------------------------------------------------------------------
(* What the tour-activity and the cruise-ship Checker read in the page of  *)
(* a 200 response.  A string is the sequence of its characters.            *)

LowerCase(ch) ==
    CASE ch = "B" -> "b" [] ch = "C" -> "c" [] ch = "I" -> "i" [] ch = "M" -> "m"
      [] ch = "S" -> "s" [] ch = "V" -> "v" [] ch = "W" -> "w" [] OTHER -> ch

toLowerCase(text) == [i \in 1..Len(text) |-> LowerCase(text[i])]

\* text.replace(/[chars]/g, with), with a string
RECURSIVE Replace(_, _, _)
Replace(text, chars, with) ==
    IF text = <<>> THEN <<>>
    ELSE (IF Head(text) \in chars THEN with ELSE <<Head(text)>>)
            \o Replace(Tail(text), chars, with)

\* text.replace(/\s+/g, ' ').trim()
RECURSIVE CollapseTrim(_)
CollapseTrim(text) ==
    IF text = <<>> THEN <<>>
    ELSE IF Head(text) = " "
    THEN LET rest == CollapseTrim(Tail(text))
         IN  rest
    ELSE IF Len(text) >= 2 /\ text[2] = " "
    THEN LET rest == CollapseTrim(Tail(text))
         IN  IF rest = <<>> THEN <<Head(text)>> ELSE <<Head(text), " ">> \o rest
    ELSE <<Head(text)>> \o CollapseTrim(Tail(text))

\* text.includes(part)
Includes(text, part) ==
    \E i \in 0..(Len(text) - Len(part)) : SubSeq(text, i + 1, i + Len(part)) = part

\* text.split(' ')
RECURSIVE Split(_)
Split(text) ==
    IF " " \notin {text[i] : i \in 1..Len(text)} THEN <<text>>
    ELSE LET k == CHOOSE i \in 1..Len(text) :
                     text[i] = " " /\ \A j \in 1..(i - 1) : text[j] # " "
         IN  <<SubSeq(text, 1, k - 1)>> \o Split(SubSeq(text, k + 1, Len(text)))

normalizeForComparison(text) ==
    CollapseTrim(Replace(Replace(toLowerCase(text), {"&", "+"}, <<>>), {"-"}, <<" ">>))

OptionFitsMutant(option, normalizedActivityPath) ==
    normalizeForComparison(option) = normalizedActivityPath

\* The test of options.some(...) in checkTourActivityAvailability
OptionFits(option, normalizedActivityPath) ==
    LET normalizedOption == normalizeForComparison(option)
    IN  \/ normalizedOption = normalizedActivityPath
        \/ Includes(normalizedOption, normalizedActivityPath)
        \/ Includes(normalizedActivityPath, normalizedOption)

SomeOption(options, Test(_)) == \E i \in 1..Len(options) : Test(options[i])

\* checkTourActivityAvailability after a 200 response: what it returns for
\* the last path segment of the URL and the page.
TourActivityResult(activityPath, page) ==
    LET Fits(option) == OptionFits(option, normalizeForComparison(activityPath))
        inExperience == SomeOption(page.experienceOptions, Fits)
        inActivity == SomeOption(page.activityOptions, Fits)
    IN  IF ~page.hasIndexList
        THEN [available |-> TRUE, pageType |-> "landing", experienceOptions |-> <<>>,
              activityOptions |-> <<>>, shipOptions |-> <<>>,
              isAvailableInExperience |-> Undefined, isAvailableInActivity |-> Undefined]
        ELSE [available |-> inExperience \/ inActivity, pageType |-> "index",
              experienceOptions |-> page.experienceOptions,
              activityOptions |-> page.activityOptions, shipOptions |-> <<>>,
              isAvailableInExperience |-> inExperience,
              isAvailableInActivity |-> inActivity]

MarinePrefixes ==
    {<<"m", "/", "c">>, <<"m", ".", "c", ".">>, <<"m", "c">>, <<"m", ".", "s", ".">>,
     <<"m", "s">>, <<"m", ".", "v", ".">>, <<"m", "v">>}

RECURSIVE TrimStart(_)
TrimStart(text) ==
    IF text # <<>> /\ Head(text) = " " THEN TrimStart(Tail(text)) ELSE text

\* text.replace(/^(m\/c|m\.c\.|mc|m\.s\.|ms|m\.v\.|mv)\s*/i, '')
StripMarinePrefix(text) ==
    LET found == {p \in MarinePrefixes : Len(p) <= Len(text) /\ SubSeq(text, 1, Len(p)) = p}
    IN  IF found = {} THEN text
        ELSE LET p == CHOOSE p \in found : TRUE
             IN  TrimStart(SubSeq(text, Len(p) + 1, Len(text)))

\* The characters of the model that are neither \w nor \s nor replaced by a
\* space before
OtherPunctuation == {"'", "!"}

normalizeShipName(text) ==
    CollapseTrim(Replace(Replace(StripMarinePrefix(toLowerCase(text)),
                                 {"&", "+", "-", "_", "/", "."}, <<" ">>),
                         OtherPunctuation, <<>>))

Min(a, b) == IF a <= b THEN a ELSE b

shipNamesMatchExact(urlName, optionName) ==
    normalizeShipName(urlName) = normalizeShipName(optionName)

shipNamesMatchMutant(urlName, optionName) ==
    LET normalizedUrl == normalizeShipName(urlName)
        normalizedOption == normalizeShipName(optionName)
        Significant(w) == Len(w) > 2
        urlWords == SelectSeq(Split(normalizedUrl), Significant)
        optionWords == SelectSeq(Split(normalizedOption), Significant)
        matchCount == Cardinality({i \in 1..Len(urlWords) :
                         \E j \in 1..Len(optionWords) :
                             \/ Includes(optionWords[j], urlWords[i])
                             \/ Includes(urlWords[i], optionWords[j])})
    IN  IF normalizedUrl = normalizedOption THEN TRUE
        ELSE IF Includes(normalizedOption, normalizedUrl)
                \/ Includes(normalizedUrl, normalizedOption) THEN TRUE
        ELSE IF Min(Len(urlWords), Len(optionWords)) = 0 THEN FALSE
        ELSE matchCount * 10 >= 6 * Len(urlWords)

\* matchCount / minWords >= 0.6, in tenths
shipNamesMatch(urlName, optionName) ==
    LET normalizedUrl == normalizeShipName(urlName)
        normalizedOption == normalizeShipName(optionName)
        Significant(w) == Len(w) > 2
        urlWords == SelectSeq(Split(normalizedUrl), Significant)
        optionWords == SelectSeq(Split(normalizedOption), Significant)
        minWords == Min(Len(urlWords), Len(optionWords))
        matchCount == Cardinality({i \in 1..Len(urlWords) :
                         \E j \in 1..Len(optionWords) :
                             \/ Includes(optionWords[j], urlWords[i])
                             \/ Includes(urlWords[i], optionWords[j])})
    IN  IF normalizedUrl = normalizedOption THEN TRUE
        ELSE IF Includes(normalizedOption, normalizedUrl)
                \/ Includes(normalizedUrl, normalizedOption) THEN TRUE
        ELSE IF minWords = 0 THEN FALSE
        ELSE matchCount * 10 >= 6 * minWords

\* checkCruiseShipAvailability after a 200 response of the tours page
CruiseShipResult(shipName, page) ==
    LET Matches(option) == shipNamesMatch(shipName, option)
    IN  [available |-> SomeOption(page.shipOptions, Matches), pageType |-> Undefined,
         experienceOptions |-> <<>>, activityOptions |-> <<>>,
         shipOptions |-> page.shipOptions,
         isAvailableInExperience |-> Undefined, isAvailableInActivity |-> Undefined]

CheckerPage(hasIndexList, experienceOptions, activityOptions, shipOptions) ==
    [hasIndexList |-> hasIndexList, experienceOptions |-> experienceOptions,
     activityOptions |-> activityOptions, shipOptions |-> shipOptions]

\* No Checker call is looked at on its own.
NoCall == [fn |-> "none", name |-> <<>>, page |-> CheckerPage(FALSE, <<>>, <<>>, <<>>),
           pc |-> "none", result |-> Null]

----------------------------------------------------------------------------
(* The web the service crawls: what a seed URL can answer and what a link  *)
(* can answer to a Validator or a Checker.                                 *)

DestNames == <<"cusco", "lima", "puno", "arequipa", "ica", "nazca", "paracas", "tacna">>

SeedBig == Site(<<"peru", "articles", "big">>)
SeedTour == Site(<<"peru", "articles", "inca">>)
SeedCruise == Site(<<"ecuador", "articles", "galapagos">>)
SeedDup == Site(<<"chile", "articles", "patagonia">>)
SeedTwin == Site(<<"chile", "articles", "atacama">>)
SeedEmpty == Site(<<"bolivia", "articles", "empty">>)
SeedDown == Url("down.example.com", <<"x">>)
SeedNoContent == Site(<<"bolivia", "articles", "nocontent">>)
SeedPlain == Site(<<"peru", "articles", "plain">>)

LinkTour == Site(<<"peru", "tours", "18055", "inca-trail">>)
LinkExternal == Url("external.example.com", <<"page">>)
LinkCruise == Site(<<"ecuador", "galapagos", "cruises", "123", "darwin">>)
LinkArticle == Site(<<"peru", "articles", "cusco-market">>)
LinkStory == Site(<<"chile", "stories", "a-story">>)
LinkWrongContact == Site(<<"contactt">>)
LinkOperator == Site(<<"operators", "42", "andes-guides">>)
LinkForm == Site(<<"forms", "signup">>)
LinkContact == Site(<<"contact">>)
LinkActivity == Site(<<"peru", "tours", "hiking">>)
LinkDest(i) == Site(<<"peru", DestNames[i]>>)

\* An anchor of a page, as extractLinks reads it.
\*   raw   what the trimmed href attribute looks like: "empty", "hash" (#),
\*         "javascript", "relative" (starts with / or does not start with
\*         http: passed to new URL(href, baseUrl)) or "absolute" (starts with
\*         http: kept as written)
\*   url   relative: what new URL(href, baseUrl) gives, ok = FALSE when it
\*         throws; absolute: the href as written, ok = FALSE when it is a
\*         string new URL rejects
\*   text  the words of the text the priority chain picks, as their lengths;
\*         the whitespace collapse and the trim leave the words joined by
\*         single spaces
\*   img   whether the anchor contains an image
\*   sec   the class token al-sec-<sec> of the closest ancestor that has one
\*         other than al-sec, al-sec-title and al-sec-content, without its
\*         prefix; NoSection when no ancestor within 15 levels has one
NoSection == "(none)"
Anchor(raw, url, text, img) ==
    [raw |-> raw, url |-> url, text |-> text, img |-> img, sec |-> NoSection]

InSection(anchor, sec) == [anchor EXCEPT !.sec = sec]

PlainWords == <<4, 4>>
Plain(hrefs) == [i \in 1..Len(hrefs) |-> Anchor("absolute", hrefs[i], PlainWords, FALSE)]

\* A page is the anchors of its intro region and of its main region.
Page(intro, main) == [intro |-> intro, main |-> main]
EmptyPage == Page(<<>>, <<>>)

\* What axios.get(targetUrl) ends with.  kind "ok": a response with status
\* 200; "status": a response with another status (error.response is set, or
\* a 2xx other than 200 is returned); "noresponse": the request was sent and
\* got no response (error.request is set, error.code says why); "exception":
\* an error with neither response nor request.
SeedOk(page) == [kind |-> "ok", status |-> 200, code |-> "", page |-> page]
SeedStatus(status) == [kind |-> "status", status |-> status, code |-> "", page |-> EmptyPage]
SeedNoResponse == [kind |-> "noresponse", status |-> 0, code |-> "ECONNABORTED",
                   page |-> EmptyPage]
SeedNotFound == [kind |-> "noresponse", status |-> 0, code |-> "ENOTFOUND",
                 page |-> EmptyPage]
SeedThrew == [kind |-> "exception", status |-> 0, code |-> "ERR_INVALID_URL",
              page |-> EmptyPage]

\* The answers a seed URL can give to the page fetch.
Web(url) ==
    CASE url = SeedBig -> {SeedOk(Page(<<>>, Plain([i \in 1..BigPageLinks |-> LinkDest(i)])))}
      [] url = SeedTour -> {SeedOk(Page(Plain(<<LinkTour>>), Plain(<<LinkExternal>>))), SeedNoResponse}
      [] url = SeedCruise -> {SeedOk(Page(Plain(<<LinkCruise>>),
                                          Plain(<<LinkArticle, LinkWrongContact>>))),
                              SeedStatus(500)}
      [] url = SeedDup -> {SeedOk(Page(Plain(<<LinkWrongContact, LinkStory>>),
                                       Plain(<<LinkStory>>)))}
      [] url = SeedTwin -> {SeedOk(Page(Plain(<<LinkStory>>), Plain(<<LinkStory>>)))}
      [] url = SeedEmpty -> {SeedOk(EmptyPage)}
      [] url = SeedNoContent -> {SeedStatus(204)}
      [] url = SeedPlain ->
            {SeedOk(Page(Plain(<<LinkArticle, LinkOperator, LinkContact, LinkActivity>>),
                         <<InSection(Plain(<<LinkWrongContact>>)[1], "tiles"),
                           InSection(Plain(<<LinkForm>>)[1], "text"),
                           InSection(Anchor("absolute", BadUrl, PlainWords, FALSE),
                                     "text"),
                           InSection(Plain(<<LinkArticle>>)[1], "constructor")>>))}
      [] url = SeedDown -> {SeedNoResponse, SeedNotFound}
      [] ~url.ok -> {SeedThrew}
      [] OTHER -> {SeedNoResponse}

\* Whether the page a Checker reads shows what it looks for; the Validators
\* and the plain page Checkers do not read the page.
Signals(type) ==
    IF type \in {"cruise-with-id", "tour-with-id", "tour-activity", "cruise-ship"}
    THEN BOOLEAN
    ELSE {FALSE}

\* The statuses a link can answer with.
Responses(url) ==
    IF url.host = "www.adventure-life.com" /\ Len(url.segs) = 2
    THEN {200, 0}
    ELSE IF url.host = "www.adventure-life.com"
    THEN {200, 301, 0}
    ELSE {200, 204, 301, 404, 0}

----------------------------------------------------------------------------
(* Link extraction: the initial record of an anchor, with the placeholder  *)
(* fields of its category.  A field the category has no placeholder for is *)
(* absent from the object (Undefined).                                     *)

ValidatorCategories ==
    {"tour-with-id", "tour-activity", "cruise-ship", "destination-special-page",
     "multi-level/stories/story-name", "contact-page", "wrong-contact-path",
     "external-link"}

CheckerCategories ==
    {"tour-with-id", "tour-activity", "cruise-ship",
     "multi-level/stories/story-name", "contact-page", "external-link"}

HasValidationFields(category) ==
    category \in ValidatorCategories \/ IsDestination(category)

HasAvailabilityFields(category) ==
    category = "cruise-with-id" \/ category = "wrong-contact-path"
        \/ category \in CheckerCategories

\* The text of a link: the words of the anchor text that were kept, whether
\* "..." was appended, or one of the two placeholders of an empty text.
Text(words, ellipsis) == [placeholder |-> "", words |-> words, ellipsis |-> ellipsis]
ImageLinkText == [placeholder |-> "Image Link", words |-> <<>>, ellipsis |-> FALSE]
NoTextText == [placeholder |-> "[No text]", words |-> <<>>, ellipsis |-> FALSE]

RECURSIVE SumOf(_)
SumOf(words) == IF words = <<>> THEN 0 ELSE Head(words) + SumOf(Tail(words))

\* text.length of words joined by single spaces
JoinedLength(words) == IF words = <<>> THEN 0 ELSE SumOf(words) + Len(words) - 1

\* Index (0-based) of the space that follows word j
SpaceIndex(words, j) == SumOf(SubSeq(words, 1, j)) + j - 1

\* text.lastIndexOf(' ', fromIndex): the last space at or before fromIndex,
\* -1 when there is none
lastIndexOf(words, fromIndex) ==
    LET spaces == {SpaceIndex(words, j) : j \in 1..(Len(words) - 1)}
        found == {i \in spaces : i <= fromIndex}
    IN  IF found = {} THEN -1
        ELSE CHOOSE i \in found : \A j \in found : j <= i

\* The first k characters of the joined words; a last word of length 0 is
\* a space the cut leaves at the end.
RECURSIVE TakeChars(_, _)
TakeChars(words, k) ==
    IF words = <<>> THEN <<>>
    ELSE IF k <= Head(words) THEN <<k>>
    ELSE IF Tail(words) = <<>> THEN words
    ELSE <<Head(words)>> \o TakeChars(Tail(words), k - Head(words) - 1)

\* text.substring(0, end): a negative end counts as 0
substring(words, end) == IF end <= 0 THEN <<>> ELSE TakeChars(words, end)

MaxTextLength == 120

truncateMutant(words, max) ==
    IF JoinedLength(words) <= max
    THEN Text(words, FALSE)
    ELSE Text(substring(words, max), TRUE)

\* function truncate(text, max = 120)
truncate(words, max) ==
    IF JoinedLength(words) <= max
    THEN Text(words, FALSE)
    ELSE Text(substring(words, lastIndexOf(words, max)), TRUE)

\* The text of the link of an anchor: truncated, then replaced by a
\* placeholder when it is the empty string.
LinkText(anchor) ==
    LET text == truncate(anchor.text, MaxTextLength)
        empty == text.words = <<>> /\ ~text.ellipsis
    IN  IF empty /\ anchor.img THEN ImageLinkText
        ELSE IF empty THEN NoTextText
        ELSE text

\* The length of a link text that is no placeholder
TextLength(text) == JoinedLength(text.words) + (IF text.ellipsis THEN 3 ELSE 0)

\* $el.closest('.al-intro') finds the region of the intro anchors; the
\* class walk of Method 1 answers for the others, and Method 2 can only find
\* a class Method 1 would have found.
detectSectionType(anchor, region) ==
    IF region = "intro" THEN "intro"
    ELSE IF anchor.sec # NoSection THEN anchor.sec
    ELSE "unknown"

NewLink(href, text, region, position, section) ==
    LET category == categorizeUrl(href)
        v == IF HasValidationFields(category) THEN Null ELSE Undefined
        a == IF HasAvailabilityFields(category) THEN Null ELSE Undefined
    IN  [href |-> href, text |-> text, region |-> region, position |-> position,
         section |-> section,
         category |-> category,
         valid |-> v,
         status |-> IF HasValidationFields(category) THEN NullStatus ELSE UndefinedStatus,
         redirected |-> v, resolvedUrl |-> v, validationError |-> v,
         available |-> a, availabilityError |-> a]

\* The anchors the .each callback leaves without a link record
SkippedMutant(anchor) ==
    \/ anchor.raw \in {"empty", "hash", "javascript"}
    \/ ~anchor.url.ok

Skipped(anchor) ==
    \/ anchor.raw \in {"empty", "hash", "javascript"}
    \/ anchor.raw = "relative" /\ ~anchor.url.ok

RECURSIVE ExtractFrom(_, _, _)
ExtractFrom(anchors, region, i) ==
    IF i > Len(anchors) THEN <<>>
    ELSE IF Skipped(anchors[i]) THEN ExtractFrom(anchors, region, i + 1)
    ELSE <<NewLink(anchors[i].url, LinkText(anchors[i]), region, i,
                   detectSectionType(anchors[i], region))>>
            \o ExtractFrom(anchors, region, i + 1)

\* container.find('a[href]').each((i, el) => ...): i counts every anchor of
\* the region, the skipped ones too, and position is i + 1
extractLinks(anchors, region) == ExtractFrom(anchors, region, 1)

\* const allLinks = [...introLinks, ...mainLinks]
AllLinks(page) == extractLinks(page.intro, "intro") \o extractLinks(page.main, "main")

----------------------------------------------------------------------------
(* The task lists of a crawl.  A task is one concurrencyLimit(() => ...)   *)
(* call: the link it is for, the type tag its result carries, where it is  *)
(* (queued in the gate, running its GET, settled), the status its GET got  *)
(* and its result.                                                         *)

Indices(seq) == [i \in 1..Len(seq) |-> i]

LinksOfMutant(links, block) ==
    SelectSeq(Indices(links),
              LAMBDA i : /\ IF block = "destination"
                            THEN IsDestination(links[i].category)
                            ELSE links[i].category = block
                         /\ \A j \in 1..(i - 1) : links[j].href # links[i].href)

\* allLinks.filter(...) of one category block, as link indices.
LinksOf(links, block) ==
    SelectSeq(Indices(links),
              LAMBDA i : IF block = "destination"
                         THEN IsDestination(links[i].category)
                         ELSE links[i].category = block)

\* gets: the GETs the task's function has issued.  order: the task settled
\* as the order-th of the tasks of its href (0: not settled yet).
NewTask(i, type) ==
    [link |-> i, type |-> type, state |-> "queued", http |-> NullStatus, res |-> NoResult,
     gets |-> 0, order |-> 0]

\* The tasks of the list that are for the href of task k and have settled.
SettledOfHref(tasks, links, k) ==
    {j \in 1..Len(tasks) :
        tasks[j].state = "settled" /\ links[tasks[j].link].href = links[tasks[k].link].href}

BlockTasksMutant(links, block) ==
    LET idx == LinksOf(links, block)
    IN  [k \in 1..Len(idx) |-> NewTask(idx[Len(idx) + 1 - k], block)]

\* xLinks.forEach(link => validationTasks.push(concurrencyLimit(...)))
BlockTasks(links, block) ==
    LET idx == LinksOf(links, block)
    IN  [k \in 1..Len(idx) |-> NewTask(idx[k], block)]

ValidationBlocksMutant ==
    <<"cruise-with-id", "tour-with-id", "destination", "tour-activity", "cruise-ship",
      "destination-special-page", "multi-level/stories/story-name", "contact-page",
      "wrong-contact-path", "external-link", "multi-level/articles/article-name">>

\* The category filters of the handler, in the order their tasks are pushed.
ValidationBlocks ==
    <<"cruise-with-id", "tour-with-id", "destination", "tour-activity", "cruise-ship",
      "destination-special-page", "multi-level/stories/story-name", "contact-page",
      "wrong-contact-path", "external-link">>

AvailabilityBlocks ==
    <<"tour-with-id", "tour-activity", "cruise-ship",
      "multi-level/stories/story-name", "contact-page", "external-link">>

RECURSIVE ConcatBlocks(_, _, _)
ConcatBlocks(links, blocks, n) ==
    IF n = 0 THEN <<>>
    ELSE ConcatBlocks(links, blocks, n - 1) \o BlockTasks(links, blocks[n])

validationTasks(links) ==
    ConcatBlocks(links, ValidationBlocks, Len(ValidationBlocks))

ValidLinksOfMutant(links, block) == LinksOf(links, block)

\* Only the links of a Checker category whose merged valid is true.
ValidLinksOf(links, block) ==
    SelectSeq(LinksOf(links, block), LAMBDA i : links[i].valid = "true")

RECURSIVE ConcatValid(_, _)
ConcatValid(links, n) ==
    IF n = 0 THEN <<>>
    ELSE LET idx == ValidLinksOf(links, AvailabilityBlocks[n])
         IN  ConcatValid(links, n - 1)
                \o [k \in 1..Len(idx) |-> NewTask(idx[k], AvailabilityBlocks[n])]

availabilityTasks(links) == ConcatValid(links, Len(AvailabilityBlocks))

\* The result the task's function resolves to for the outcome of its GET.
ValidationResult(type, status, signal) ==
    CASE type = "cruise-with-id" -> checkCruiseAvailability(status, signal)
      [] type = "wrong-contact-path" -> validateWrongContactPathLink(status)
      [] OTHER -> validateLink(status)

AvailabilityResult(type, status, signal) ==
    CASE type = "tour-with-id" -> checkTourWithIdAvailability(status, signal)
      [] type \in {"tour-activity", "cruise-ship"} -> checkOptionAvailability(status, signal)
      [] OTHER -> checkPageAvailability(status, signal)

----------------------------------------------------------------------------
(* The merge steps: a Map keyed by href filled in task order (a later task *)
(* of the same href overwrites an earlier one), then applied to every link *)
(* by its href.                                                            *)

MapGetMutant(tasks, links, href) ==
    LET ks == {k \in 1..Len(tasks) :
                  ~tasks[k].res.threw /\ links[tasks[k].link].href = href}
    IN  IF ks = {} THEN 0 ELSE CHOOSE k \in ks : \A j \in ks : tasks[j].order <= tasks[k].order

\* The task whose result the map holds for href; 0 when the map has none.
\* Promise.allSettled keeps the order of the task array, whatever the order
\* the tasks settled in.  Only a fulfilled task enters the map.
MapGet(tasks, links, href) ==
    LET ks == {k \in 1..Len(tasks) :
                  ~tasks[k].res.threw /\ links[tasks[k].link].href = href}
    IN  IF ks = {} THEN 0 ELSE CHOOSE k \in ks : \A j \in ks : j <= k

ApplyValidation(link, task) ==
    IF task.type = "cruise-with-id"
    THEN [link EXCEPT !.available = task.res.available,
                      !.availabilityError = task.res.error]
    ELSE [link EXCEPT !.valid = task.res.valid,
                      !.status = task.res.status,
                      !.redirected = task.res.redirected,
                      !.resolvedUrl = task.res.resolvedUrl,
                      !.validationError = task.res.error]

mergeValidationMutant(links, tasks) ==
    [i \in 1..Len(links) |->
        LET ks == {k \in 1..Len(tasks) : ~tasks[k].res.threw /\ tasks[k].link = i}
        IN  IF ks = {} THEN links[i]
            ELSE ApplyValidation(links[i], tasks[CHOOSE k \in ks : TRUE])]

\* allLinks.forEach(link => ...) over validationMap.get(link.href)
mergeValidation(links, tasks) ==
    [i \in 1..Len(links) |->
        LET k == MapGet(tasks, links, links[i].href)
        IN  IF k = 0 THEN links[i] ELSE ApplyValidation(links[i], tasks[k])]

ApplyAvailabilityMutant(link, task) ==
    [link EXCEPT !.available = task.res.available,
                 !.availabilityError = task.res.error,
                 !.valid = task.res.available,
                 !.validationError = task.res.error]

\* The branch of the availability merge for the task's type.
ApplyAvailability(link, task) ==
    [link EXCEPT !.available = task.res.available,
                 !.availabilityError = task.res.error]

mergeAvailability(links, tasks) ==
    [i \in 1..Len(links) |->
        LET k == MapGet(tasks, links, links[i].href)
        IN  IF k = 0 THEN links[i] ELSE ApplyAvailability(links[i], tasks[k])]

----------------------------------------------------------------------------
(* The statistics of the response.  categoryCounts, sectionCounts,         *)
(* sectionCategoryMatrix and linksByCategory are object literals ({}): a   *)
(* key that is not an own property is looked up in Object.prototype.  An   *)
(* object is the function from its own keys to their values.               *)

\* Keys every object literal inherits a function for.
InheritedKeys == {"constructor", "toString", "valueOf", "hasOwnProperty"}

\* The value of a counter that is a string and no longer a number:
\* (f || 0) + 1 for an inherited function f is the text of f followed by
\* "1", and + 1 on a string appends another "1".
TextValue == -1

NoObject == <<>>

\* obj[key] = (obj[key] || 0) + 1
Increment(obj, key) ==
    IF key \in DOMAIN obj
    THEN [obj EXCEPT ![key] = IF @ = TextValue THEN TextValue ELSE @ + 1]
    ELSE IF key \in InheritedKeys
    THEN obj @@ (key :> TextValue)
    ELSE obj @@ (key :> 1)

RECURSIVE CountBy(_, _, _)
CountBy(links, field, n) ==
    IF n = 0 THEN NoObject
    ELSE Increment(CountBy(links, field, n - 1), links[n][field])

\* if (!m[section]) m[section] = {}; if (!m[section][category])
\* m[section][category] = 0; m[section][category]++.  For an inherited key
\* m[section] is the inherited function: no row is created and the counter
\* is written on that function.
MatrixAdd(m, section, category) ==
    IF section \in DOMAIN m
    THEN [m EXCEPT ![section] =
            IF category \in DOMAIN @ THEN [@ EXCEPT ![category] = @ + 1]
            ELSE @ @@ (category :> 1)]
    ELSE IF section \in InheritedKeys
    THEN m
    ELSE m @@ (section :> (category :> 1))

RECURSIVE MatrixOf(_, _)
MatrixOf(links, n) ==
    IF n = 0 THEN NoObject
    ELSE MatrixAdd(MatrixOf(links, n - 1), links[n].section, links[n].category)

\* if (!linksByCategory[category]) linksByCategory[category] = [];
\* linksByCategory[category].push(linkData): the lists hold the links by
\* their index in allLinks.
RECURSIVE GroupByCategory(_, _)
GroupByCategory(links, n) ==
    IF n = 0 THEN NoObject
    ELSE LET g == GroupByCategory(links, n - 1)
             category == links[n].category
         IN  IF category \in DOMAIN g
             THEN [g EXCEPT ![category] = Append(@, n)]
             ELSE g @@ (category :> <<n>>)

\* xLinks.forEach(link => { if (link.field === value) xStats.counter++ })
HowMany(links, idx, field, value) ==
    Cardinality({k \in 1..Len(idx) : links[idx[k]][field] = value})

\* The stat block of one category filter.  cruiseStats has total, available
\* and unavailable only; destinationStats and destinationSpecialPageStats
\* have no available and unavailable (counted here, never set on a link).
StatBlock(links, block) ==
    LET idx == LinksOf(links, block)
    IN  [total |-> Len(idx),
         valid |-> HowMany(links, idx, "valid", "true"),
         invalid |-> HowMany(links, idx, "valid", "false"),
         redirected |-> HowMany(links, idx, "redirected", "true"),
         available |-> HowMany(links, idx, "available", "true"),
         unavailable |-> HowMany(links, idx, "available", "false")]

\* stats and linksByCategory of res.json
Stats(links) ==
    [totalLinks |-> Len(links),
     totalIntroLinks |-> Len(SelectSeq(links, LAMBDA l : l.region = "intro")),
     totalMainLinks |-> Len(SelectSeq(links, LAMBDA l : l.region = "main")),
     categoryCounts |-> CountBy(links, "category", Len(links)),
     sectionCounts |-> CountBy(links, "section", Len(links)),
     sectionCategoryMatrix |-> MatrixOf(links, Len(links)),
     blocks |-> [b \in 1..Len(ValidationBlocks) |-> StatBlock(links, ValidationBlocks[b])],
     linksByCategory |-> GroupByCategory(links, Len(links))]

NoStats == Stats(<<>>)

----------------------------------------------------------------------------
(* State of a crawl and of a response *)

NoCrawlResult == [url |-> BadUrl, success |-> Null, error |-> Null, totalLinks |-> 0]

IdleCrawl == [pc |-> "idle", page |-> EmptyPage, links |-> <<>>, vtasks |-> <<>>,
              atasks |-> <<>>, result |-> NoCrawlResult]

NoResp == [status |-> 0, totalUrls |-> 0, successfulUrls |-> 0, failedUrls |-> 0,
           results |-> <<>>, failures |-> <<>>, totalLinksAcrossAllUrls |-> 0,
           averageLinksPerUrl |-> 0, stats |-> NoStats]

Crawls == DOMAIN crawl

AllSettled(tasks) == \A k \in 1..Len(tasks) : tasks[k].state = "settled"

TaskIds(c, phase, tasks) == [k \in 1..Len(tasks) |-> <<c, phase, k>>]

Running(tasks) == {k \in 1..Len(tasks) : tasks[k].state = "running"}

\* Continuations that run before the next network callback is delivered.
LinkAdmitPending == linkActive < ConcurrencyLimit /\ linkQueue # <<>>
BatchAdmitPending ==
    mode = "batch" /\ hpc = "awaiting"
        /\ batchActive < BatchConcurrencyLimit /\ batchQueue # <<>>
ValidationSettledMutant(c) ==
    /\ crawl[c].pc = "validating"
    /\ \/ crawl[c].vtasks = <<>>
       \/ \E k \in 1..Len(crawl[c].vtasks) : crawl[c].vtasks[k].state = "settled"
ValidationSettled(c) == crawl[c].pc = "validating" /\ AllSettled(crawl[c].vtasks)
AvailabilitySettled(c) == crawl[c].pc = "checking" /\ AllSettled(crawl[c].atasks)
BatchSettledMutant ==
    /\ mode = "batch" /\ hpc = "awaiting"
    /\ \/ \A c \in Crawls : crawl[c].pc = "done"
       \/ \E c \in Crawls : crawl[c].pc = "done" /\ crawl[c].result.success = "false"

\* Promise.allSettled(processingTasks) resolves: every crawl has returned.
BatchSettled ==
    mode = "batch" /\ hpc = "awaiting" /\ \A c \in Crawls : crawl[c].pc = "done"
MicrotasksPending ==
    \/ LinkAdmitPending
    \/ BatchAdmitPending
    \/ BatchSettled
    \/ \E c \in Crawls : ValidationSettled(c) \/ AvailabilitySettled(c)

----------------------------------------------------------------------------
(* concurrencyLimit = pLimit(5): the gate of the Validator and Checker     *)
(* calls, one per module and shared by every crawl of the process.         *)

\* The gate invokes the function of the task, which issues its GET.
SetTaskState(c, phase, k, st) ==
    IF phase = "v"
    THEN [crawl EXCEPT ![c].vtasks[k].state = st, ![c].vtasks[k].gets = @ + 1]
    ELSE [crawl EXCEPT ![c].atasks[k].state = st, ![c].atasks[k].gets = @ + 1]

LinkAdmitMutant ==
    /\ LinkAdmitPending
    /\ LET t == linkQueue[Len(linkQueue)]
       IN  crawl' = SetTaskState(t[1], t[2], t[3], "running")
    /\ linkQueue' = SubSeq(linkQueue, 1, Len(linkQueue) - 1)
    /\ linkActive' = linkActive + 1
    /\ UNCHANGED <<call, mode, bodyKind, urls, hpc, batchQueue, batchActive, resp>>

\* A slot is free and a task is queued: the head of the queue starts its GET.
LinkAdmit ==
    /\ LinkAdmitPending
    /\ LET t == Head(linkQueue)
       IN  crawl' = SetTaskState(t[1], t[2], t[3], "running")
    /\ linkQueue' = Tail(linkQueue)
    /\ linkActive' = linkActive + 1
    /\ UNCHANGED <<call, mode, bodyKind, urls, hpc, batchQueue, batchActive, resp>>

\* The GET of a Validator task ends: the task settles with the Validator's
\* result and gives its slot back.
ValidatorDone(c, k) ==
    /\ ~MicrotasksPending
    /\ crawl[c].pc = "validating"
    /\ k \in Running(crawl[c].vtasks)
    /\ LET task == crawl[c].vtasks[k]
           href == crawl[c].links[task.link].href
       IN  \E status \in Responses(href), signal \in Signals(task.type) :
              crawl' = [crawl EXCEPT ![c].vtasks[k] =
                          [task EXCEPT !.state = "settled", !.http = status,
                                       !.res = ValidationResult(task.type, status, signal),
                                       !.order = 1 + Cardinality(SettledOfHref(
                                                    crawl[c].vtasks, crawl[c].links, k))]]
    /\ linkActive' = linkActive - 1
    /\ UNCHANGED <<call, mode, bodyKind, urls, hpc, batchQueue, batchActive, linkQueue, resp>>

\* The GET of a Checker task ends.
CheckerDone(c, k) ==
    /\ ~MicrotasksPending
    /\ crawl[c].pc = "checking"
    /\ k \in Running(crawl[c].atasks)
    /\ LET task == crawl[c].atasks[k]
           href == crawl[c].links[task.link].href
       IN  \E status \in Responses(href), signal \in Signals(task.type) :
              crawl' = [crawl EXCEPT ![c].atasks[k] =
                          [task EXCEPT !.state = "settled", !.http = status,
                                       !.res = AvailabilityResult(task.type, status, signal),
                                       !.order = 1 + Cardinality(SettledOfHref(
                                                    crawl[c].atasks, crawl[c].links, k))]]
    /\ linkActive' = linkActive - 1
    /\ UNCHANGED <<call, mode, bodyKind, urls, hpc, batchQueue, batchActive, linkQueue, resp>>

----------------------------------------------------------------------------
(* The crawl: processSingleUrl of article_audit.js and the body of         *)
(* router.post('/') of audit_script.js share these segments line by line.  *)

\* After a seed page answered 200: extraction of both regions, then every
\* validation task is submitted to the gate, block by block.
BeginValidation(c, page) ==
    LET allLinks == AllLinks(page)
        tasks == validationTasks(allLinks)
    IN  /\ crawl' = [crawl EXCEPT ![c].pc = "validating",
                                  ![c].page = page,
                                  ![c].links = allLinks,
                                  ![c].vtasks = tasks]
        /\ linkQueue' = linkQueue \o TaskIds(c, "v", tasks)

AfterValidationMutant(c) ==
    /\ ValidationSettled(c)
    /\ LET merged == mergeValidation(crawl[c].links, crawl[c].vtasks)
           tasks == availabilityTasks(merged)
           shared(d) == [i \in 1..Len(crawl[d].links) |->
                           IF \E j \in 1..Len(merged) : merged[j].href = crawl[d].links[i].href
                           THEN LET j == CHOOSE j \in 1..Len(merged) :
                                            merged[j].href = crawl[d].links[i].href
                                IN  [merged[j] EXCEPT !.region = crawl[d].links[i].region,
                                                      !.position = crawl[d].links[i].position]
                           ELSE crawl[d].links[i]]
       IN  /\ crawl' = [d \in Crawls |->
                          IF d = c
                          THEN [crawl[c] EXCEPT !.pc = "checking", !.links = merged,
                                                !.atasks = tasks]
                          ELSE [crawl[d] EXCEPT !.links = shared(d)]]
           /\ linkQueue' = linkQueue \o TaskIds(c, "a", tasks)
    /\ UNCHANGED <<call, mode, bodyKind, urls, hpc, batchQueue, batchActive, linkActive, resp>>

\* After Promise.allSettled(validationTasks): the validation merge, then the
\* Checker tasks of the links that are now valid are submitted to the gate.
AfterValidation(c) ==
    /\ ValidationSettled(c)
    /\ LET merged == mergeValidation(crawl[c].links, crawl[c].vtasks)
           tasks == availabilityTasks(merged)
       IN  /\ crawl' = [crawl EXCEPT ![c].pc = "checking",
                                     ![c].links = merged,
                                     ![c].atasks = tasks]
           /\ linkQueue' = linkQueue \o TaskIds(c, "a", tasks)
    /\ UNCHANGED <<call, mode, bodyKind, urls, hpc, batchQueue, batchActive, linkActive, resp>>

\* The object a crawl ends with.
SuccessResult(c, links) ==
    [url |-> urls[c], success |-> "true", error |-> Null, totalLinks |-> Len(links)]

FailureResult(c, message) ==
    [url |-> urls[c], success |-> "false", error |-> message, totalLinks |-> 0]

----------------------------------------------------------------------------
(* Batch audit: router.post('/') of article_audit.js                       *)

AllIdle == \A c \in Crawls : crawl[c].pc = "idle"

HandleBatchMutant ==
    /\ mode = "batch" /\ hpc = "start"
    /\ IF bodyKind # "ok"
          \/ Len(urls) > MaxBatchUrls
          \/ \A i \in 1..Len(urls) : ~urls[i].ok
       THEN /\ resp' = [resp EXCEPT ![1] = [NoResp EXCEPT !.status = 400]]
            /\ hpc' = "done"
            /\ UNCHANGED batchQueue
       ELSE /\ batchQueue' = Indices(urls)
            /\ hpc' = "awaiting"
            /\ UNCHANGED resp
    /\ UNCHANGED <<call, mode, bodyKind, urls, batchActive, crawl, linkQueue, linkActive>>

\* The request arrives: input validation, then one processSingleUrl task
\* per url is submitted to batchConcurrencyLimit.
HandleBatch ==
    /\ mode = "batch" /\ hpc = "start"
    /\ IF bodyKind # "ok"
          \/ Len(urls) > MaxBatchUrls
          \/ \E i \in 1..Len(urls) : ~urls[i].ok
       THEN /\ resp' = [resp EXCEPT ![1] = [NoResp EXCEPT !.status = 400]]
            /\ hpc' = "done"
            /\ UNCHANGED batchQueue
       ELSE /\ batchQueue' = Indices(urls)
            /\ hpc' = "awaiting"
            /\ UNCHANGED resp
    /\ UNCHANGED <<call, mode, bodyKind, urls, batchActive, crawl, linkQueue, linkActive>>

\* A batch slot is free: the next queued crawl starts and issues its page fetch.
BatchAdmit ==
    /\ BatchAdmitPending
    /\ crawl' = [crawl EXCEPT ![Head(batchQueue)].pc = "fetching"]
    /\ batchQueue' = Tail(batchQueue)
    /\ batchActive' = batchActive + 1
    /\ UNCHANGED <<call, mode, bodyKind, urls, hpc, linkQueue, linkActive, resp>>

\* The page fetch of processSingleUrl ends.
SeedFetchDoneBatch(c) ==
    /\ mode = "batch"
    /\ ~MicrotasksPending
    /\ crawl[c].pc = "fetching"
    /\ \E out \in Web(urls[c]) :
          IF out.kind = "ok"
          THEN /\ BeginValidation(c, out.page)
               /\ UNCHANGED batchActive
          ELSE /\ crawl' = [crawl EXCEPT
                                ![c].pc = "done",
                                ![c].result = FailureResult(c, "Failed to fetch URL")]
               /\ batchActive' = batchActive - 1
               /\ UNCHANGED linkQueue
    /\ UNCHANGED <<call, mode, bodyKind, urls, hpc, batchQueue, linkActive, resp>>

FinishCrawlBatchMutant(c) ==
    /\ mode = "batch"
    /\ AvailabilitySettled(c)
    /\ LET merged == mergeAvailability(crawl[c].links, crawl[c].atasks)
       IN  crawl' = [crawl EXCEPT ![c].pc = "done",
                                  ![c].links = merged,
                                  ![c].result = SuccessResult(c, merged)]
    /\ UNCHANGED <<call, mode, bodyKind, urls, hpc, batchQueue, batchActive, linkQueue,
                   linkActive, resp>>

\* After Promise.allSettled(availabilityTasks): the availability merge, the
\* statistics, and processSingleUrl returns; its batch slot is free again.
FinishCrawlBatch(c) ==
    /\ mode = "batch"
    /\ AvailabilitySettled(c)
    /\ LET merged == mergeAvailability(crawl[c].links, crawl[c].atasks)
       IN  crawl' = [crawl EXCEPT ![c].pc = "done",
                                  ![c].links = merged,
                                  ![c].result = SuccessResult(c, merged)]
    /\ batchActive' = batchActive - 1
    /\ UNCHANGED <<call, mode, bodyKind, urls, hpc, batchQueue, linkQueue, linkActive, resp>>

\* results.forEach: the partition of the settled crawls, in url order.
successfulResults ==
    LET idx == SelectSeq(Indices(urls), LAMBDA i : crawl[i].result.success = "true")
    IN  [k \in 1..Len(idx) |-> crawl[idx[k]].result]

failedResultsMutant ==
    LET idx == SelectSeq(Indices(urls),
                         LAMBDA i : crawl[i].result.success # "true" /\ i # 2)
    IN  [k \in 1..Len(idx) |-> [url |-> urls[idx[k]], error |-> crawl[idx[k]].result.error]]
failedResults ==
    LET idx == SelectSeq(Indices(urls), LAMBDA i : crawl[i].result.success # "true")
    IN  [k \in 1..Len(idx) |-> [url |-> urls[idx[k]], error |-> crawl[idx[k]].result.error]]

\* aggregatedStats.totalLinksAcrossAllUrls += result.stats.totalLinks
RECURSIVE SumTotalLinks(_)
SumTotalLinks(results) ==
    IF results = <<>> THEN 0
    ELSE Head(results).totalLinks + SumTotalLinks(Tail(results))

totalLinksAcrossAllUrls == SumTotalLinks(successfulResults)

\* Math.round(a / b) for a >= 0 and b > 0
Round(a, b) == (2 * a + b) \div (2 * b)

averageLinksPerUrl ==
    IF Len(successfulResults) > 0
    THEN Round(totalLinksAcrossAllUrls, Len(successfulResults))
    ELSE 0

BatchRespondMutant ==
    /\ BatchSettled
    /\ resp' = [resp EXCEPT ![1] =
                    [status |-> IF Len(successfulResults) = 0 /\ Len(urls) > 0
                                THEN 502 ELSE 200,
                     totalUrls |-> Len(urls),
                     successfulUrls |-> Len(successfulResults),
                     failedUrls |-> Len(failedResults),
                     results |-> successfulResults,
                     failures |-> failedResults,
                     totalLinksAcrossAllUrls |-> totalLinksAcrossAllUrls,
                     averageLinksPerUrl |-> averageLinksPerUrl,
                     stats |-> NoStats]]
    /\ hpc' = "done"
    /\ UNCHANGED <<call, mode, bodyKind, urls, batchQueue, batchActive, crawl,
                   linkQueue, linkActive>>

\* After Promise.allSettled(processingTasks): the batch response.
BatchRespond ==
    /\ BatchSettled
    /\ resp' = [resp EXCEPT ![1] =
                    [status |-> 200,
                     totalUrls |-> Len(urls),
                     successfulUrls |-> Len(successfulResults),
                     failedUrls |-> Len(failedResults),
                     results |-> successfulResults,
                     failures |-> failedResults,
                     totalLinksAcrossAllUrls |-> totalLinksAcrossAllUrls,
                     averageLinksPerUrl |-> averageLinksPerUrl,
                     stats |-> NoStats]]
    /\ hpc' = "done"
    /\ UNCHANGED <<call, mode, bodyKind, urls, batchQueue, batchActive, crawl,
                   linkQueue, linkActive>>

----------------------------------------------------------------------------
(* Single-URL audit: router.post('/') of audit_script.js.  Request c is    *)
(* crawl c; its body is {url: urls[c]}, NoUrl when the url is missing.     *)

\* The request arrives: the body check, then the page fetch is issued.
HandleSingle(c) ==
    /\ mode = "single"
    /\ crawl[c].pc = "idle"
    /\ IF urls[c] = NoUrl
       THEN /\ crawl' = [crawl EXCEPT ![c].pc = "done"]
            /\ resp' = [resp EXCEPT ![c] = [NoResp EXCEPT !.status = 400]]
       ELSE /\ crawl' = [crawl EXCEPT ![c].pc = "fetching"]
            /\ UNCHANGED resp
    /\ UNCHANGED <<call, mode, bodyKind, urls, hpc, batchQueue, batchActive,
                   linkQueue, linkActive>>

\* The status of the error response for a failed page fetch: the test of
\* response.status and the catch block, in the order of its branches.
SeedErrorStatus(out) ==
    IF out.kind = "status" THEN 502
    ELSE IF out.kind = "noresponse" THEN 504
    ELSE IF out.code = "ENOTFOUND" THEN 404
    ELSE 500

SeedFetchDoneSingleMutant(c) ==
    /\ mode = "single"
    /\ ~MicrotasksPending
    /\ crawl[c].pc = "fetching"
    /\ \E out \in Web(urls[c]) :
          /\ BeginValidation(c, out.page)
          /\ IF out.kind = "ok"
             THEN UNCHANGED resp
             ELSE resp' = [resp EXCEPT ![c] =
                              [NoResp EXCEPT !.status = SeedErrorStatus(out)]]
    /\ UNCHANGED <<call, mode, bodyKind, urls, hpc, batchQueue, batchActive, linkActive>>

\* The page fetch of the request ends.
SeedFetchDoneSingle(c) ==
    /\ mode = "single"
    /\ ~MicrotasksPending
    /\ crawl[c].pc = "fetching"
    /\ \E out \in Web(urls[c]) :
          IF out.kind = "ok"
          THEN /\ BeginValidation(c, out.page)
               /\ UNCHANGED resp
          ELSE /\ crawl' = [crawl EXCEPT ![c].pc = "done",
                                         ![c].result = FailureResult(c, out)]
               /\ resp' = [resp EXCEPT ![c] =
                              [NoResp EXCEPT !.status = SeedErrorStatus(out)]]
               /\ UNCHANGED linkQueue
    /\ UNCHANGED <<call, mode, bodyKind, urls, hpc, batchQueue, batchActive, linkActive>>

\* After Promise.allSettled(availabilityTasks): the availability merge, the
\* statistics and the response.
FinishCrawlSingle(c) ==
    /\ mode = "single"
    /\ AvailabilitySettled(c)
    /\ LET merged == mergeAvailability(crawl[c].links, crawl[c].atasks)
       IN  crawl' = [crawl EXCEPT ![c].pc = "done",
                                  ![c].links = merged,
                                  ![c].result = SuccessResult(c, merged)]
    /\ resp' = [resp EXCEPT ![c] =
                    [NoResp EXCEPT !.status = 200,
                                   !.stats = Stats(mergeAvailability(crawl[c].links,
                                                                     crawl[c].atasks))]]
    /\ UNCHANGED <<call, mode, bodyKind, urls, hpc, batchQueue, batchActive,
                   linkQueue, linkActive>>

----------------------------------------------------------------------------
(* Requests explored *)

Repeat(n, a, b) == [i \in 1..n |-> IF i % 7 = 0 THEN b ELSE a]

BatchBodies ==
    { [kind |-> "ok", urls |-> <<SeedBig, SeedCruise, SeedEmpty>>],
      [kind |-> "ok", urls |-> <<SeedTour, SeedDown, SeedCruise>>],
      [kind |-> "ok", urls |-> <<SeedDown, SeedNoContent>>],
      [kind |-> "ok", urls |-> <<SeedCruise, SeedCruise, SeedEmpty>>],
      [kind |-> "ok", urls |-> <<SeedTour, BadUrl>>],
      [kind |-> "ok", urls |-> <<>>],
      [kind |-> "ok", urls |-> Repeat(MaxBatchUrls - 1, SeedEmpty, SeedDown)],
      [kind |-> "ok", urls |-> Repeat(MaxBatchUrls, SeedEmpty, SeedDown)],
      [kind |-> "ok", urls |-> Repeat(MaxBatchUrls + 1, SeedEmpty, SeedDown)],
      [kind |-> "nobody", urls |-> <<>>],
      [kind |-> "nourls", urls |-> <<>>],
      [kind |-> "notarray", urls |-> <<>>] }

SingleRequests ==
    { <<SeedBig, SeedCruise>>,
      <<SeedTour, SeedCruise>>,
      <<SeedDup, NoUrl>>,
      <<SeedTwin, SeedTwin>>,
      <<SeedCruise, SeedNoContent>>,
      <<SeedTour, SeedDown>>,
      <<SeedDown, BadUrl>>,
      <<SeedPlain, SeedTour>> }

InitCommon ==
    /\ call = NoCall
    /\ hpc = "start"
    /\ batchQueue = <<>>
    /\ batchActive = 0
    /\ crawl = [c \in 1..Len(urls) |-> IdleCrawl]
    /\ linkQueue = <<>>
    /\ linkActive = 0

Init ==
    /\ mode = "batch"
    /\ \E b \in BatchBodies : bodyKind = b.kind /\ urls = b.urls
    /\ resp = <<NoResp>>
    /\ InitCommon

InitSingle ==
    /\ mode = "single"
    /\ bodyKind = "ok"
    /\ urls \in SingleRequests
    /\ resp = [c \in 1..Len(urls) |-> NoResp]
    /\ InitCommon

Next ==
    \/ HandleBatch
    \/ BatchAdmit
    \/ \E c \in Crawls : SeedFetchDoneBatch(c)
    \/ LinkAdmit
    \/ \E c \in Crawls : \E k \in 1..Len(crawl[c].vtasks) : ValidatorDone(c, k)
    \/ \E c \in Crawls : AfterValidation(c)
    \/ \E c \in Crawls : \E k \in 1..Len(crawl[c].atasks) : CheckerDone(c, k)
    \/ \E c \in Crawls : FinishCrawlBatch(c)
    \/ BatchRespond

NextSingle ==
    \/ \E c \in Crawls : HandleSingle(c)
    \/ \E c \in Crawls : SeedFetchDoneSingle(c)
    \/ LinkAdmit
    \/ \E c \in Crawls : \E k \in 1..Len(crawl[c].vtasks) : ValidatorDone(c, k)
    \/ \E c \in Crawls : AfterValidation(c)
    \/ \E c \in Crawls : \E k \in 1..Len(crawl[c].atasks) : CheckerDone(c, k)
    \/ \E c \in Crawls : FinishCrawlSingle(c)

Spec == Init /\ [][Next]_vars

SpecSingle == InitSingle /\ [][NextSingle]_vars

\* Every outbound call ends (axios timeouts of 8 to 12 s) and the event loop
\* runs every callback and continuation that is ready: a step that can be
\* taken is eventually taken.
SpecLive == Spec /\ WF_vars(Next)

SpecSingleLive == SpecSingle /\ WF_vars(NextSingle)

----------------------------------------------------------------------------
(* The extraction alone: a fetched page, then extractLinks on its two      *)
(* regions.  The pages vary the URL of one anchor, the text of one anchor, *)
(* or the kinds of the anchors of both regions.                            *)

Hosts == {"www.adventure-life.com", "adventure-life.com", "external.example.com"}

\* "" is the segment of the root path and of a doubled slash
Segments == {"", "peru", "tours", "cruises", "stories", "articles", "operators",
             "123", "5-day-trek", "contact-us", "contactt"}

WordLengths == {1, 59, 60, 120, 121, 130}

AnchorKinds ==
    {Anchor("empty", BadUrl, PlainWords, FALSE),
     Anchor("hash", BadUrl, PlainWords, FALSE),
     Anchor("javascript", BadUrl, PlainWords, FALSE),
     Anchor("relative", BadUrl, PlainWords, FALSE),
     Anchor("relative", LinkDest(1), PlainWords, FALSE),
     Anchor("absolute", BadUrl, PlainWords, FALSE),
     Anchor("absolute", LinkStory, PlainWords, FALSE)}

UrlPage(url) == Page(<<>>, <<Anchor("absolute", url, PlainWords, FALSE)>>)
TextPage(words, img) == Page(<<>>, <<Anchor("absolute", LinkArticle, words, img)>>)

Fetched(page) == crawl = <<[IdleCrawl EXCEPT !.pc = "fetched", !.page = page]>>

InitExtract ==
    /\ call = NoCall
    /\ mode = "single"
    /\ bodyKind = "ok"
    /\ urls = <<SeedTour>>
    /\ resp = <<NoResp>>
    /\ hpc = "start"
    /\ batchQueue = <<>>
    /\ batchActive = 0
    /\ \/ Fetched(UrlPage(BadUrl))
       \/ \E h \in Hosts : \E n \in 1..MaxSegments : \E segs \in [1..n -> Segments] :
             Fetched(UrlPage(Url(h, segs)))
       \/ \E n \in 0..MaxWords : \E words \in [1..n -> WordLengths] : \E img \in BOOLEAN :
             Fetched(TextPage(words, img))
       \/ \E n, m \in 0..MaxAnchors :
             \E intro \in [1..n -> AnchorKinds] : \E main \in [1..m -> AnchorKinds] :
                Fetched(Page(intro, main))
    /\ linkQueue = <<>>
    /\ linkActive = 0

ExtractLinks(c) ==
    /\ crawl[c].pc = "fetched"
    /\ crawl' = [crawl EXCEPT ![c].pc = "extracted",
                              ![c].links = AllLinks(crawl[c].page)]
    /\ UNCHANGED <<call, mode, bodyKind, urls, hpc, batchQueue, batchActive, linkQueue,
                   linkActive, resp>>

NextExtract == \E c \in Crawls : ExtractLinks(c)

SpecExtract == InitExtract /\ [][NextExtract]_vars

----------------------------------------------------------------------------
(* Observations used by the properties *)

\* The Validator and Checker tasks whose GET is in flight.
InFlightTasks ==
    UNION { {<<c, "v", k>> : k \in Running(crawl[c].vtasks)}
              \cup {<<c, "a", k>> : k \in Running(crawl[c].atasks)} : c \in Crawls }

\* The crawls whose page fetch is in flight.
FetchingCrawls == {c \in Crawls : crawl[c].pc = "fetching"}

\* The crawls that have started and not finished.
RunningCrawls == {c \in Crawls : crawl[c].pc \in {"fetching", "validating", "checking"}}

IsPrefix(s, t) == Len(s) <= Len(t) /\ \A i \in 1..Len(s) : s[i] = t[i]

----------------------------------------------------------------------------
(* Properties *)

\* C1: at most 5 Validator/Checker calls are admitted and not yet completed,
\* in every reachable state, also while two crawls of a batch both have
\* tasks in the gate; the gate's counter is the number of calls in flight.
C1_LinkGateBound ==
    /\ Cardinality(InFlightTasks) <= 5
    /\ linkActive = Cardinality(InFlightTasks)

\* Two crawls have tasks in the gate, 5 calls are in flight and more wait.
C1_Witness ==
    /\ Cardinality(InFlightTasks) = 5
    /\ linkQueue # <<>>
    /\ \E c, d \in Crawls : c # d /\ crawl[c].pc = "validating" /\ crawl[d].pc = "validating"
    /\ \E t \in InFlightTasks : \E q \in 1..Len(linkQueue) : linkQueue[q][1] # t[1]

\* C2: at most 2 crawls of a batch run at any time; a crawl leaves the batch
\* queue only while fewer than 2 are running.
C2_BatchGateBound ==
    /\ Cardinality(RunningCrawls) <= 2
    /\ batchActive = Cardinality(RunningCrawls)
    /\ (hpc = "awaiting" /\ batchQueue # <<>> /\ ~BatchAdmitPending)
          => Cardinality(RunningCrawls) = 2

\* Two crawls run and a third waits for one of them to finish.
C2_Witness ==
    /\ Cardinality(RunningCrawls) = 2
    /\ batchQueue # <<>>
    /\ \E c \in Crawls : crawl[c].pc = "done"

\* C3 as stated: seed-page fetches, Validator calls and Checker calls in
\* flight never number more than 5 together.
C3_Original ==
    Cardinality(FetchingCrawls) + Cardinality(InFlightTasks) <= 5

\* C3 amended: at most 5 Validator/Checker calls are in flight; the page
\* fetches do not pass that gate, at most 2 of a batch are in flight, and
\* the total of one batch request is at most 6.
C3_Amended ==
    /\ Cardinality(InFlightTasks) <= 5
    /\ Cardinality(FetchingCrawls) <= 2
    /\ Cardinality(FetchingCrawls) + Cardinality(InFlightTasks) <= 6
    /\ \A c \in FetchingCrawls : \A q \in 1..Len(linkQueue) : linkQueue[q][1] # c

\* A page fetch is in flight beside 5 Validator calls.
C3_Witness ==
    Cardinality(FetchingCrawls) = 1 /\ Cardinality(InFlightTasks) = 5

\* C4: both gates start their tasks in submission order: a task that starts
\* is the head of its queue, and a submission goes behind everything queued.
C4_FifoStep ==
    /\ \A c \in Crawls :
          /\ \A k \in 1..Len(crawl[c].vtasks) :
                (crawl[c].vtasks[k].state = "queued" /\ crawl'[c].vtasks[k].state = "running")
                    => Head(linkQueue) = <<c, "v", k>>
          /\ \A k \in 1..Len(crawl[c].atasks) :
                (crawl[c].atasks[k].state = "queued" /\ crawl'[c].atasks[k].state = "running")
                    => Head(linkQueue) = <<c, "a", k>>
          /\ (crawl[c].pc = "idle" /\ crawl'[c].pc = "fetching" /\ mode = "batch")
                => Head(batchQueue) = c
    /\ IsPrefix(linkQueue, linkQueue')
          \/ (linkQueue # <<>> /\ linkQueue' = Tail(linkQueue))
    /\ IsPrefix(batchQueue, batchQueue')
          \/ (batchQueue # <<>> /\ batchQueue' = Tail(batchQueue))

C4_Fifo == [][C4_FifoStep]_vars

\* A task taken from the queue is running while a task submitted after it,
\* by another crawl, still waits.
C4_Witness ==
    \E c, d \in Crawls :
        /\ c # d
        /\ \E k \in 1..Len(crawl[c].vtasks) : crawl[c].vtasks[k].state = "settled"
        /\ \E k \in 1..Len(crawl[d].vtasks) : crawl[d].vtasks[k].state = "running"
        /\ \E k \in 1..Len(crawl[d].vtasks) : crawl[d].vtasks[k].state = "queued"

NonEmpty(e) == e \notin {Null, Undefined, ""}

\* The link shows the result of this validation task.
ShowsValidation(link, task) ==
    IF task.type = "cruise-with-id"
    THEN /\ link.available = task.res.available
         /\ link.availabilityError = task.res.error
         /\ task.http # 200 => (link.available = "false" /\ NonEmpty(link.availabilityError))
    ELSE /\ link.valid = task.res.valid
         /\ link.status = task.res.status
         /\ link.redirected = task.res.redirected
         /\ link.resolvedUrl = task.res.resolvedUrl
         /\ link.validationError = task.res.error
         /\ task.http # 200 => (link.valid = "false" /\ NonEmpty(link.validationError))

\* The link shows the result of this Checker task.
ShowsAvailability(link, task) ==
    /\ link.available = task.res.available
    /\ link.availabilityError = task.res.error
    /\ task.http # 200 => (link.available = "false" /\ NonEmpty(link.availabilityError))

NothingThrown(tasks) ==
    \A k \in 1..Len(tasks) : tasks[k].state = "settled" => ~tasks[k].res.threw

BatchAnswered == mode = "batch" /\ hpc = "done" /\ resp[1].status = 200

Count(seq, P(_)) == Cardinality({k \in 1..Len(seq) : P(seq[k])})

FailedCrawls == {c \in Crawls : crawl[c].pc = "done" /\ crawl[c].result.success = "false"}

\* The crawl of url c fails in this step.
FailsNow(c) == crawl[c].pc = "fetching" /\ crawl'[c].pc = "done"

\* C7: the failure of one seed URL leaves every other crawl and both gates'
\* queues as they are, and the batch still waits for every other crawl; in
\* the response the failed URL has its failures entry and every crawl that
\* succeeded has its result, with the links it found.
C7_Final ==
    BatchAnswered =>
        /\ \A c \in Crawls : crawl[c].pc = "done" /\ crawl[c].result.success \in {"true", "false"}
        /\ \A c \in FailedCrawls :
              \E k \in 1..Len(resp[1].failures) : resp[1].failures[k].url = urls[c]
        /\ Len(resp[1].failures) = Cardinality(FailedCrawls)
        /\ \A c \in Crawls \ FailedCrawls :
              \E k \in 1..Len(resp[1].results) :
                  /\ resp[1].results[k] = crawl[c].result
                  /\ resp[1].results[k].url = urls[c]
                  /\ resp[1].results[k].totalLinks = Len(crawl[c].links)

C7_Step ==
    \A c \in Crawls :
        FailsNow(c) =>
            /\ \A d \in Crawls \ {c} : crawl'[d] = crawl[d]
            /\ linkQueue' = linkQueue /\ linkActive' = linkActive
            /\ batchQueue' = batchQueue
            /\ resp' = resp

C8_Partition ==
    BatchAnswered =>
        /\ resp[1].totalUrls = Len(urls)
        /\ resp[1].successfulUrls = Len(resp[1].results)
        /\ resp[1].failedUrls = Len(resp[1].failures)
        /\ resp[1].successfulUrls + resp[1].failedUrls = resp[1].totalUrls
        /\ \A k \in 1..Len(resp[1].results) : resp[1].results[k].success = "true"
        /\ \A c \in FailedCrawls :
              \E k \in 1..Len(resp[1].failures) : resp[1].failures[k].url = urls[c]
        /\ \A c \in Crawls :
              Count(resp[1].results, LAMBDA r : r.url = urls[c])
                + Count(resp[1].failures, LAMBDA f : f.url = urls[c])
                = Count(urls, LAMBDA u : u = urls[c])

\* The same URL was submitted twice; one crawl of it failed, one succeeded.
C8_Witness ==
    /\ BatchAnswered
    /\ \E c, d \in Crawls :
          /\ c # d /\ urls[c] = urls[d]
          /\ crawl[c].result.success = "true"
          /\ crawl[d].result.success = "false"

AllUrlsValid == \A i \in 1..Len(urls) : urls[i].ok

\* C9: a batch of 21 or more URLs is answered 400 and no crawl is ever
\* submitted or started; a batch of 20 valid URLs is never answered 400 and
\* its answer comes after all 20 crawls.
C9_BatchLimit ==
    /\ (mode = "batch" /\ bodyKind = "ok" /\ Len(urls) >= 21) =>
          /\ AllIdle /\ batchQueue = <<>> /\ batchActive = 0
          /\ InFlightTasks = {} /\ linkQueue = <<>>
          /\ resp[1].status \in {0, 400}
          /\ hpc = "done" => resp[1].status = 400
    /\ (mode = "batch" /\ bodyKind = "ok" /\ Len(urls) = 20 /\ AllUrlsValid) =>
          /\ resp[1].status \in {0, 200}
          /\ hpc = "awaiting" =>
                \A c \in Crawls : crawl[c].pc # "idle" \/ c \in SegSet(batchQueue)
          /\ hpc = "done" =>
                /\ resp[1].status = 200
                /\ resp[1].totalUrls = 20
                /\ \A c \in 1..20 : crawl[c].pc = "done" /\ crawl[c].result.success # Null

\* A batch of 20 URLs is answered after its 20 crawls.
C9_Witness ==
    /\ BatchAnswered
    /\ Len(urls) = 20
    /\ \E c \in Crawls : crawl[c].result.success = "true"

\* C10: a batch request that passes input validation is answered 200 and
\* nothing else, whatever the crawls ended with.
C10_Always200 ==
    (mode = "batch" /\ bodyKind = "ok" /\ Len(urls) <= 20 /\ AllUrlsValid) =>
        /\ resp[1].status \in {0, 200}
        /\ hpc = "done" => resp[1].status = 200
        /\ hpc = "done" => resp[1].failedUrls = Cardinality(FailedCrawls)

\* Every seed URL of the batch failed and the answer is 200.
C10_Witness ==
    /\ BatchAnswered
    /\ Len(urls) >= 2
    /\ resp[1].successfulUrls = 0
    /\ resp[1].failedUrls = Len(urls)

\* The settled tasks of a crawl that ran a Validator other than the one of
\* wrong-contact-path.
PlainValidatorTasks(c) ==
    {k \in 1..Len(crawl[c].vtasks) :
        /\ crawl[c].vtasks[k].state = "settled"
        /\ crawl[c].vtasks[k].type \notin {"cruise-with-id", "wrong-contact-path"}}

\* C11: a Validator other than the one of wrong-contact-path reports
\* valid = true exactly when its GET answered 200; every other status and no
\* response at all give valid = false.
C11_ExactlyOk ==
    \A c \in Crawls : \A k \in PlainValidatorTasks(c) :
        LET task == crawl[c].vtasks[k]
        IN  /\ task.res.valid \in {"true", "false"}
            /\ task.res.valid = "true" <=> task.http = 200

\* The settled tasks of a crawl that ran a Validator.
ValidatorTasks(c) ==
    {k \in 1..Len(crawl[c].vtasks) :
        crawl[c].vtasks[k].state = "settled" /\ crawl[c].vtasks[k].type # "cruise-with-id"}

\* C12: every Validator turns a 301, 302, 303, 307 or 308 response into
\* valid = false, redirected = true and the Location header as resolvedUrl,
\* and every other failure into valid = false, redirected = false, the
\* requested URL as resolvedUrl and a non-empty error.
C12_RedirectOrError ==
    \A c \in Crawls : \A k \in ValidatorTasks(c) :
        LET task == crawl[c].vtasks[k]
        IN  /\ task.http \in RedirectStatuses =>
                  /\ task.res.valid = "false"
                  /\ task.res.redirected = "true"
                  /\ task.res.resolvedUrl = Location
                  /\ task.res.status = task.http
            /\ (task.http \notin RedirectStatuses /\ task.http # 200) =>
                  /\ task.res.valid = "false"
                  /\ task.res.redirected = "false"
                  /\ task.res.resolvedUrl = Requested
                  /\ NonEmpty(task.res.error)

\* C13: whatever its request answers, the Validator of a wrong-contact-path
\* link reports valid = false; such a link never has valid = true, no Checker
\* task is created for it and its `available` stays null.
C13_WrongContactPath ==
    \A c \in Crawls :
        /\ \A k \in 1..Len(crawl[c].vtasks) :
              (crawl[c].vtasks[k].type = "wrong-contact-path"
                  /\ crawl[c].vtasks[k].state = "settled")
                  => crawl[c].vtasks[k].res.valid = "false"
        /\ \A i \in 1..Len(crawl[c].links) :
              crawl[c].links[i].category = "wrong-contact-path" =>
                  /\ crawl[c].links[i].valid \in {Null, "false"}
                  /\ crawl[c].pc \in {"checking", "done"} => crawl[c].links[i].valid = "false"
                  /\ crawl[c].links[i].available = Null
                  /\ \A k \in 1..Len(crawl[c].atasks) : crawl[c].atasks[k].link # i

\* The request of a wrong-contact-path link answered 200 and the link ended
\* the audit with valid = false and `available` null.
C13_Witness ==
    \E c \in Crawls :
        /\ crawl[c].pc = "done"
        /\ \E k \in 1..Len(crawl[c].vtasks) :
              /\ crawl[c].vtasks[k].type = "wrong-contact-path"
              /\ crawl[c].vtasks[k].http = 200
              /\ crawl[c].links[crawl[c].vtasks[k].link].valid = "false"
              /\ crawl[c].links[crawl[c].vtasks[k].link].available = Null
        /\ crawl[c].atasks # <<>>

AvailabilityFields == {"available", "availabilityError"}

\* The availability merge of crawl c runs in this step.
AvailabilityMergeNow(c) == crawl[c].pc = "checking" /\ crawl'[c].pc = "done"

\* C14: the availability merge changes availability fields only: href,
\* region, position, category, valid, status, redirected, resolvedUrl and
\* validationError of every link are after the merge what they were before.
C14_FrameStep ==
    \A c \in Crawls :
        AvailabilityMergeNow(c) =>
            /\ Len(crawl'[c].links) = Len(crawl[c].links)
            /\ \A i \in 1..Len(crawl[c].links) :
                  \A f \in DOMAIN crawl[c].links[i] \ AvailabilityFields :
                      crawl'[c].links[i][f] = crawl[c].links[i][f]

C14_AvailabilityFrame == [][C14_FrameStep]_vars

\* The availability merge has written a Checker's negative result into a
\* link that the Validator had reported valid.
C14_Witness ==
    \E c \in Crawls :
        /\ crawl[c].pc = "done"
        /\ \E k \in 1..Len(crawl[c].atasks) :
              LET link == crawl[c].links[crawl[c].atasks[k].link]
              IN  /\ link.valid = "true" /\ link.status = 200
                  /\ link.available = "false"
                  /\ NonEmpty(link.availabilityError)

\* Two task lists whose calls all ended, with the same outcome call by call.
SameOutcomes(ts, us) ==
    /\ Len(ts) = Len(us)
    /\ \A k \in 1..Len(ts) :
          /\ ts[k].state = "settled" /\ us[k].state = "settled"
          /\ ts[k].link = us[k].link /\ ts[k].type = us[k].type
          /\ ts[k].http = us[k].http /\ ts[k].res = us[k].res

\* Two crawls that found the same anchors.
SamePage(c, d) ==
    /\ Len(crawl[c].links) = Len(crawl[d].links)
    /\ \A i \in 1..Len(crawl[c].links) : crawl[c].links[i].href = crawl[d].links[i].href

\* C15: two crawls of the same page whose calls had the same outcomes end
\* with the same link records whatever the order their calls completed in,
\* and applying a merge once more with the same results changes no link.
C15_OrderIndependent ==
    /\ \A c, d \in Crawls :
          (SamePage(c, d) /\ SameOutcomes(crawl[c].vtasks, crawl[d].vtasks)
              /\ crawl[c].pc \in {"checking", "done"} /\ crawl[d].pc \in {"checking", "done"}) =>
              /\ \A i \in 1..Len(crawl[c].links) :
                    \A f \in DOMAIN crawl[c].links[i] \ AvailabilityFields :
                        crawl[c].links[i][f] = crawl[d].links[i][f]
              /\ Len(crawl[c].atasks) = Len(crawl[d].atasks)
              /\ (crawl[c].pc = "done" /\ crawl[d].pc = "done"
                    /\ SameOutcomes(crawl[c].atasks, crawl[d].atasks))
                    => crawl[c].links = crawl[d].links
    /\ \A c \in Crawls :
          /\ crawl[c].pc \in {"checking", "done"} =>
                mergeValidation(crawl[c].links, crawl[c].vtasks) = crawl[c].links
          /\ crawl[c].pc = "done" =>
                mergeAvailability(crawl[c].links, crawl[c].atasks) = crawl[c].links

\* Two crawls of one page ended; the two calls for one href had different
\* outcomes, the same in both crawls, and completed in opposite orders.
C15_Witness ==
    \E c, d \in Crawls :
        /\ c # d /\ crawl[c].pc = "done" /\ crawl[d].pc = "done"
        /\ SamePage(c, d)
        /\ SameOutcomes(crawl[c].vtasks, crawl[d].vtasks)
        /\ SameOutcomes(crawl[c].atasks, crawl[d].atasks)
        /\ Len(crawl[c].vtasks) >= 2
        /\ crawl[c].vtasks[1].http # crawl[c].vtasks[2].http
        /\ crawl[c].vtasks[1].order = 2 /\ crawl[d].vtasks[1].order = 1
        /\ crawl[c].vtasks[2].order = 1 /\ crawl[d].vtasks[2].order = 2

\* What extractLinks gives each anchor of its own.
AnchorFields == {"region", "position", "section"}

\* C16: two links of a crawl with the same href have the same validation
\* and availability field values after the validation merge and after the
\* availability merge, also when the two requests for the href had
\* different outcomes.
C16_SameHrefSameFields ==
    \A c \in Crawls :
        crawl[c].pc \in {"checking", "done"} =>
            \A i, j \in 1..Len(crawl[c].links) :
                crawl[c].links[i].href = crawl[c].links[j].href =>
                    \A f \in DOMAIN crawl[c].links[i] \ AnchorFields :
                        crawl[c].links[i][f] = crawl[c].links[j][f]

\* Two links share an href; its two Validator calls and its two Checker
\* calls each had different outcomes, and the audit has ended.
C16_Witness ==
    \E c \in Crawls :
        /\ crawl[c].pc = "done"
        /\ \E i, j \in 1..Len(crawl[c].links) :
              /\ i # j /\ crawl[c].links[i].href = crawl[c].links[j].href
              /\ crawl[c].links[i].available \in {"true", "false"}
        /\ \E k, m \in 1..Len(crawl[c].vtasks) :
              /\ crawl[c].links[crawl[c].vtasks[k].link].href
                    = crawl[c].links[crawl[c].vtasks[m].link].href
              /\ crawl[c].vtasks[k].res.valid # crawl[c].vtasks[m].res.valid
        /\ \E k, m \in 1..Len(crawl[c].atasks) :
              /\ crawl[c].links[crawl[c].atasks[k].link].href
                    = crawl[c].links[crawl[c].atasks[m].link].href
              /\ crawl[c].atasks[k].res.available # crawl[c].atasks[m].res.available

Started(task) == task.state \in {"running", "settled"}

\* The calls of a crawl that run a Checker: the tasks of the availability
\* phase and the cruise-with-id tasks of the validation phase.
CheckerStarted(c) ==
    \/ \E k \in 1..Len(crawl[c].atasks) : Started(crawl[c].atasks[k])
    \/ \E k \in 1..Len(crawl[c].vtasks) :
          crawl[c].vtasks[k].type = "cruise-with-id" /\ Started(crawl[c].vtasks[k])

PhaseRank(pc) ==
    CASE pc = "idle" -> 0
      [] pc = "fetching" -> 1
      [] pc = "validating" -> 2
      [] pc = "checking" -> 3
      [] OTHER -> 4

C17_Phases ==
    \A c \in Crawls :
        /\ crawl[c].pc \in {"idle", "fetching"} =>
              crawl[c].vtasks = <<>> /\ crawl[c].atasks = <<>>
        /\ crawl[c].pc = "validating" =>
              /\ crawl[c].atasks = <<>>
              /\ \A i \in 1..Len(crawl[c].links) :
                    crawl[c].links[i] = NewLink(crawl[c].links[i].href,
                                                crawl[c].links[i].text,
                                                crawl[c].links[i].region,
                                                crawl[c].links[i].position,
                                                crawl[c].links[i].section)
        /\ crawl[c].pc = "checking" =>
              /\ AllSettled(crawl[c].vtasks)
              /\ mergeValidation(crawl[c].links, crawl[c].vtasks) = crawl[c].links
              /\ \A k \in 1..Len(crawl[c].atasks) :
                    crawl[c].links[crawl[c].atasks[k].link].available = Null
        /\ (crawl[c].pc = "done" /\ crawl[c].result.success = "true") =>
              AllSettled(crawl[c].vtasks) /\ AllSettled(crawl[c].atasks)
        /\ \A k \in 1..Len(crawl[c].vtasks) :
              (crawl[c].vtasks[k].type = "cruise-with-id"
                  /\ crawl[c].vtasks[k].state = "running") => crawl[c].pc = "validating"

\* A crawl moves from a phase to the next one only (a failed page fetch
\* ends it), and a task starts only in the phase of its list.
C17_PhaseStep ==
    \A c \in Crawls :
        /\ \/ PhaseRank(crawl'[c].pc) = PhaseRank(crawl[c].pc)
           \/ PhaseRank(crawl'[c].pc) = PhaseRank(crawl[c].pc) + 1
           \/ crawl[c].pc = "fetching" /\ crawl'[c].pc = "done"
           \/ crawl[c].pc = "idle" /\ crawl'[c].pc = "done"
        /\ \A k \in 1..Len(crawl[c].atasks) :
              (crawl[c].atasks[k].state = "queued" /\ crawl'[c].atasks[k].state = "running")
                  => crawl[c].pc = "checking" /\ AllSettled(crawl[c].vtasks)

SubmittedBefore(k, m) == k < m

\* C18 as stated: of two links that have a Validator, the one that comes
\* first in the link list has its validation task submitted first, and
\* started no later.
C18_Original ==
    \A c \in Crawls : \A k, m \in 1..Len(crawl[c].vtasks) :
        LET s == crawl[c].vtasks[k]
            t == crawl[c].vtasks[m]
        IN  (s.type # "cruise-with-id" /\ t.type # "cruise-with-id" /\ s.link < t.link) =>
                /\ SubmittedBefore(k, m)
                /\ Started(t) => Started(s)

\* C18 amended: the validation tasks are submitted category by category in
\* a fixed order of the categories and in link-list order inside a
\* category, one task for every link of a category of that list; they
\* start in the order of their submission.
C18_Amended ==
    LET order == <<"cruise-with-id", "tour-with-id", "destination", "tour-activity",
                   "cruise-ship", "destination-special-page",
                   "multi-level/stories/story-name", "contact-page",
                   "wrong-contact-path", "external-link">>
        Rank(type) == CHOOSE r \in 1..Len(order) : order[r] = type
        Block(link) == IF IsDestination(link.category) THEN "destination" ELSE link.category
    IN  \A c \in Crawls :
          /\ \A k \in 1..Len(crawl[c].vtasks) :
                /\ crawl[c].vtasks[k].type \in SegSet(order)
                /\ Block(crawl[c].links[crawl[c].vtasks[k].link]) = crawl[c].vtasks[k].type
          /\ \A k, m \in 1..Len(crawl[c].vtasks) :
                LET s == crawl[c].vtasks[k]
                    t == crawl[c].vtasks[m]
                IN  /\ SubmittedBefore(k, m) <=>
                          \/ Rank(s.type) < Rank(t.type)
                          \/ s.type = t.type /\ s.link < t.link
                    /\ (SubmittedBefore(k, m) /\ Started(t)) => Started(s)
          /\ crawl[c].pc \in {"validating", "checking", "done"} =>
                \A i \in 1..Len(crawl[c].links) :
                    Block(crawl[c].links[i]) \in SegSet(order) =>
                        \E k \in 1..Len(crawl[c].vtasks) : crawl[c].vtasks[k].link = i

\* The Validator call of a later link is in flight while the task of an
\* earlier link, of a category that is submitted later, still waits.
C18_Witness ==
    \E c \in Crawls : \E k, m \in 1..Len(crawl[c].vtasks) :
        /\ crawl[c].vtasks[k].link > crawl[c].vtasks[m].link
        /\ crawl[c].vtasks[k].type # "cruise-with-id"
        /\ crawl[c].vtasks[m].type # "cruise-with-id"
        /\ crawl[c].vtasks[k].state = "running"
        /\ crawl[c].vtasks[m].state = "queued"

\* The Validator tasks of crawl c for its link i.
ValidatorTasksOf(c, i) ==
    {k \in 1..Len(crawl[c].vtasks) :
        crawl[c].vtasks[k].link = i /\ crawl[c].vtasks[k].type # "cruise-with-id"}

\* C19: a crawl has exactly one Validator task for every link of a category
\* with a Validator, one per occurrence of an href, and none for any other
\* link; each task issues exactly one GET whatever the answer, and a
\* settled task is never run again.
C19_Counts ==
    \A c \in Crawls :
        /\ crawl[c].pc \in {"validating", "checking"}
              \/ (crawl[c].pc = "done" /\ crawl[c].result.success = "true") =>
              \A i \in 1..Len(crawl[c].links) :
                  Cardinality(ValidatorTasksOf(c, i)) =
                      IF HasValidationFields(crawl[c].links[i].category) THEN 1 ELSE 0
        /\ \A k \in 1..Len(crawl[c].vtasks) :
              crawl[c].vtasks[k].gets = IF Started(crawl[c].vtasks[k]) THEN 1 ELSE 0

C19_Step ==
    \A c \in Crawls :
        crawl[c].vtasks # <<>> =>
            /\ Len(crawl'[c].vtasks) = Len(crawl[c].vtasks)
            /\ \A k \in 1..Len(crawl[c].vtasks) :
                  /\ crawl'[c].vtasks[k].gets >= crawl[c].vtasks[k].gets
                  /\ crawl[c].vtasks[k].state = "settled" =>
                        crawl'[c].vtasks[k] = crawl[c].vtasks[k]

C19_OneGetPerLink == [](C19_Counts) /\ [][C19_Step]_vars

\* Two links share an href; each had its own Validator call, one without a
\* response and one with a redirect, and each call issued one GET.
C19_Witness ==
    \E c \in Crawls : \E i, j \in 1..Len(crawl[c].links) :
        /\ i # j /\ crawl[c].links[i].href = crawl[c].links[j].href
        /\ crawl[c].pc = "done"
        /\ \E k \in ValidatorTasksOf(c, i) :
              crawl[c].vtasks[k].http = 0 /\ crawl[c].vtasks[k].gets = 1
        /\ \E m \in ValidatorTasksOf(c, j) :
              crawl[c].vtasks[m].http = 301 /\ crawl[c].vtasks[m].gets = 1

\* The link carries the validation result of this task of its own crawl.
OwnValidation(link, task) ==
    IF task.type = "cruise-with-id"
    THEN link.available = task.res.available /\ link.availabilityError = task.res.error
    ELSE /\ link.valid = task.res.valid /\ link.status = task.res.status
         /\ link.redirected = task.res.redirected
         /\ link.resolvedUrl = task.res.resolvedUrl
         /\ link.validationError = task.res.error

\* The link records of a crawl are what the crawl's own calls returned.
C20_Own ==
    \A c \in Crawls :
        /\ crawl[c].pc \in {"idle", "fetching"} => crawl[c].links = <<>>
        /\ crawl[c].pc = "validating" =>
              \A i \in 1..Len(crawl[c].links) :
                  crawl[c].links[i] = NewLink(crawl[c].links[i].href, crawl[c].links[i].text,
                                              crawl[c].links[i].region,
                                              crawl[c].links[i].position,
                                              crawl[c].links[i].section)
        /\ crawl[c].pc \in {"checking", "done"} =>
              \A i \in 1..Len(crawl[c].links) :
                  LET k == MapGet(crawl[c].vtasks, crawl[c].links, crawl[c].links[i].href)
                  IN  IF k = 0
                      THEN crawl[c].links[i].valid \in {Null, Undefined}
                      ELSE OwnValidation(crawl[c].links[i], crawl[c].vtasks[k])
        /\ crawl[c].pc = "done" =>
              \A i \in 1..Len(crawl[c].links) :
                  LET k == MapGet(crawl[c].atasks, crawl[c].links, crawl[c].links[i].href)
                  IN  k # 0 =>
                        /\ crawl[c].links[i].available = crawl[c].atasks[k].res.available
                        /\ crawl[c].links[i].availabilityError = crawl[c].atasks[k].res.error

\* A step writes the link list, the tasks and the result of one crawl at
\* most.
C20_Step ==
    \A c, d \in Crawls :
        (c # d /\ crawl'[c] # crawl[c]) => crawl'[d] = crawl[d]

----------------------------------------------------------------------------
(* A Checker call alone: the page of its 200 response, then the object it  *)
(* returns.                                                                *)

Strings(chars, n) == UNION {[1..k -> chars] : k \in 0..n}

\* Last path segments of tour-activity URLs
ActivityPaths == Strings({"a", "b", "-"}, MaxChars)

\* Labels of the option lists: trimmed and not empty
OptionLabels ==
    {t \in Strings({"a", "B", "&", " "}, MaxChars) :
        t # <<>> /\ t[1] # " " /\ t[Len(t)] # " "}

OptionLists == {<<>>} \cup {<<t>> : t \in OptionLabels}

ShipWords ==
    {<<"W", "i", "n", "d">>, <<"S", "t", "a", "r">>, <<"S", "e", "a">>,
     <<"C", "l", "o", "u", "d">>, <<"I", "I">>}

ShipPrefixes ==
    {<<"M", "/", "S">>, <<"M", "S">>, <<"m", ".", "s", ".">>, <<"m", "v">>,
     <<"m", ".", "v", ".">>, <<"M", "/", "C">>, <<"m", ".", "c", ".">>}

RECURSIVE Join(_, _)
Join(words, sep) ==
    IF Len(words) = 1 THEN words[1]
    ELSE words[1] \o <<sep>> \o Join(Tail(words), sep)

InitMatch ==
    /\ mode = "single"
    /\ bodyKind = "ok"
    /\ urls = <<>>
    /\ resp = <<>>
    /\ hpc = "start"
    /\ batchQueue = <<>>
    /\ batchActive = 0
    /\ crawl = <<>>
    /\ linkQueue = <<>>
    /\ linkActive = 0
    /\ \/ \E path \in ActivityPaths : \E hasIndexList \in BOOLEAN :
          \E experienceOptions \in OptionLists : \E activityOptions \in OptionLists :
             call = [NoCall EXCEPT
                        !.fn = "checkTourActivityAvailability", !.name = path,
                        !.page = CheckerPage(hasIndexList, experienceOptions,
                                             activityOptions, <<>>),
                        !.pc = "running"]
       \/ \E n \in 1..MaxNameWords : \E words \in [1..n -> ShipWords] :
          \E sep \in {" ", "-"} : \E m \in 1..2 : \E optionWords \in [1..m -> ShipWords] :
          \E prefix \in {<<>>} \cup {p \o <<" ">> : p \in ShipPrefixes} :
             call = [NoCall EXCEPT
                        !.fn = "checkCruiseShipAvailability", !.name = Join(words, sep),
                        !.page = CheckerPage(FALSE, <<>>, <<>>,
                                             <<prefix \o Join(optionWords, " ")>>),
                        !.pc = "running"]

CheckTourActivity ==
    /\ call.fn = "checkTourActivityAvailability" /\ call.pc = "running"
    /\ call' = [call EXCEPT !.pc = "settled",
                            !.result = TourActivityResult(call.name, call.page)]
    /\ UNCHANGED <<mode, bodyKind, urls, hpc, batchQueue, batchActive, crawl,
                   linkQueue, linkActive, resp>>

CheckCruiseShip ==
    /\ call.fn = "checkCruiseShipAvailability" /\ call.pc = "running"
    /\ call' = [call EXCEPT !.pc = "settled",
                            !.result = CruiseShipResult(call.name, call.page)]
    /\ UNCHANGED <<mode, bodyKind, urls, hpc, batchQueue, batchActive, crawl,
                   linkQueue, linkActive, resp>>

NextMatch == CheckTourActivity \/ CheckCruiseShip

SpecMatch == InitMatch /\ [][NextMatch]_vars

----------------------------------------------------------------------------
(* Properties of the extraction (SpecExtract) *)

ExtractedCrawls == {c \in Crawls : crawl[c].pc = "extracted"}

\* The anchor a link record was made from
AnchorOf(c, link) == crawl[c].page[link.region][link.position]

Taxonomy ==
    {"external-link", "wrong-contact-path", "contact-page", "cruise-ship",
     "cruise-with-id", "destination-special-page", "multi-level/articles/article-name",
     "multi-level/stories/story-name", "multi-level/stories", "operator-with-id",
     "tour-with-id", "tour-activity", "multi-level/destination-1",
     "multi-level/destination-2", "multi-level/destination-3",
     "multi-level/destination-N", "other", "invalid-url"}

\* C21: every href that reaches the categorizer, a string that does not
\* parse included, gets a link record whose category is one label of the
\* taxonomy, the one categorizeUrl gives that href every time; a string
\* that does not parse gets invalid-url.
C21_Taxonomy ==
    \A c \in ExtractedCrawls :
        /\ \A r \in {"intro", "main"} : \A i \in 1..Len(crawl[c].page[r]) :
              ~Skipped(crawl[c].page[r][i]) =>
                  \E k \in 1..Len(crawl[c].links) :
                      crawl[c].links[k].region = r /\ crawl[c].links[k].position = i
        /\ \A k \in 1..Len(crawl[c].links) :
              LET link == crawl[c].links[k]
              IN  /\ link.category \in Taxonomy
                  /\ link.category = categorizeUrl(AnchorOf(c, link).url)
                  /\ ~link.href.ok => link.category = "invalid-url"

\* Reached: a string that does not parse was categorized.
C21_Witness ==
    \E c \in ExtractedCrawls : \E k \in 1..Len(crawl[c].links) :
        /\ ~crawl[c].links[k].href.ok
        /\ crawl[c].links[k].category = "invalid-url"

OnSite(url) == url.ok /\ url.host \in {"www.adventure-life.com", "adventure-life.com"}

\* C22: the first three rules in their order.  An off-site host gives
\* external-link whatever the path; an on-site path with the misspelled
\* marker gives wrong-contact-path; any other on-site path with a contact
\* keyword gives contact-page, whatever rule further down would match.
C22_FirstMatch ==
    \A c \in ExtractedCrawls : \A k \in 1..Len(crawl[c].links) :
        LET link == crawl[c].links[k]
            segs == SegSet(link.href.segs)
        IN  /\ (link.href.ok /\ ~OnSite(link.href)) => link.category = "external-link"
            /\ (OnSite(link.href) /\ "contactt" \in segs) =>
                  link.category = "wrong-contact-path"
            /\ (OnSite(link.href) /\ "contactt" \notin segs
                    /\ segs \cap {"contact", "contact-us", "get-in-touch"} # {}) =>
                  link.category = "contact-page"

\* Reached: an on-site path that starts like a cruise ship page, holds tours
\* and ends with a contact keyword was categorized contact-page.
C22_Witness ==
    \E c \in ExtractedCrawls : \E k \in 1..Len(crawl[c].links) :
        /\ OnSite(crawl[c].links[k].href)
        /\ crawl[c].links[k].href.segs = <<"cruises", "123", "tours", "contact-us">>
        /\ crawl[c].links[k].category = "contact-page"

\* The links of the extracted crawls
ExtractedLinks ==
    UNION {{crawl[c].links[k] : k \in 1..Len(crawl[c].links)} : c \in ExtractedCrawls}

\* C23: at the tours rule a URL is tour-with-id exactly when the segment
\* right after tours is purely numeric (5-day-trek is not), and
\* tour-activity otherwise.
C23_NumericId ==
    \A link \in ExtractedLinks :
        link.category \in {"tour-with-id", "tour-activity"} =>
            LET segs == link.href.segs
                toursIndex == IndexOf(segs, "tours")
            IN  link.category = "tour-with-id" <=>
                    (toursIndex < Len(segs) /\ segs[toursIndex + 1] \in DigitSegments)

\* The labels of the rules that come before the tours rule
BeforeToursRule ==
    {"invalid-url", "external-link", "wrong-contact-path", "contact-page", "cruise-ship",
     "cruise-with-id", "destination-special-page", "multi-level/articles/article-name",
     "multi-level/stories/story-name", "multi-level/stories", "operator-with-id"}

\* C24: every path with a tours segment followed by a further segment, tours
\* as the first segment included, is tour-with-id or tour-activity unless a
\* rule before the tours rule has matched.
C24_ToursCovered ==
    \A link \in ExtractedLinks :
        LET segs == link.href.segs
        IN  (/\ link.category \notin BeforeToursRule
             /\ \E i \in 1..(Len(segs) - 1) : segs[i] = "tours") =>
                link.category \in {"tour-with-id", "tour-activity"}

\* C25: the on-site path that is exactly /stories is multi-level/stories.
C25_StoriesIndex ==
    \A link \in ExtractedLinks :
        (OnSite(link.href) /\ link.href.segs = <<"stories">>) =>
            link.category = "multi-level/stories"

\* C26: an on-site path without a contact keyword whose first two segments
\* are cruises and a numeric id is cruise-ship, and one with cruises and a
\* numeric id deeper in the path is cruise-with-id, whether or not anything
\* follows the id.
C26_CruiseRules ==
    \A link \in ExtractedLinks :
        LET segs == link.href.segs
            n == Len(segs)
            first == n >= 2 /\ segs[1] = "cruises" /\ segs[2] \in DigitSegments
            deeper == \E i \in 2..(n - 1) : segs[i] = "cruises" /\ segs[i + 1] \in DigitSegments
        IN  (OnSite(link.href) /\ SegSet(segs) \cap ContactSegments = {}) =>
                /\ first => link.category = "cruise-ship"
                /\ (deeper /\ ~first) => link.category = "cruise-with-id"

\* The extracted links with the anchor text each was made from
LinkTexts ==
    UNION {{[in |-> AnchorOf(c, crawl[c].links[k]).text, out |-> crawl[c].links[k].text] :
                k \in 1..Len(crawl[c].links)} : c \in ExtractedCrawls}

\* The words of the text after which a space lies at index limit or before
WordsBefore(words, limit) ==
    {j \in 1..(Len(words) - 1) : SpaceIndex(words, j) <= limit}

Unchanged(t) == (t.in # <<>> /\ JoinedLength(t.in) <= 120) => t.out = Text(t.in, FALSE)

\* C27 as stated: a text of more than 120 characters comes out with at most
\* 123 characters, ends with "..." and is, before the ellipsis, a prefix of
\* the input that ends just before a space; a shorter text is unchanged.
C27_Original ==
    \A t \in LinkTexts :
        /\ JoinedLength(t.in) > 120 =>
              /\ TextLength(t.out) <= 123
              /\ t.out.ellipsis
              /\ \E j \in 1..(Len(t.in) - 1) : t.out.words = SubSeq(t.in, 1, j)
        /\ Unchanged(t)

\* C27 amended: a text of more than 120 characters comes out with at most
\* 123 characters and ends with "..."; when a space lies among its first
\* 121 characters, the part before the ellipsis is the input up to the last
\* such space, that space excluded.  A shorter text is unchanged.
C27_Amended ==
    \A t \in LinkTexts :
        /\ JoinedLength(t.in) > 120 =>
              /\ TextLength(t.out) <= 123
              /\ t.out.ellipsis
              /\ \A j \in WordsBefore(t.in, 120) :
                    (\A i \in WordsBefore(t.in, 120) : i <= j) =>
                        t.out.words = SubSeq(t.in, 1, j)
        /\ Unchanged(t)

\* Reached: a text of 122 characters whose only space is at index 120 came
\* out as its first 120 characters and "...", 123 characters in all.
C27_Witness ==
    \E t \in LinkTexts :
        /\ t.in = <<120, 1>>
        /\ t.out = Text(<<120>>, TRUE)
        /\ TextLength(t.out) = 123

\* C28: a text of more than 120 characters without a space among its first
\* 121 comes out as its first 120 characters followed by "...".
C28_NoSpace ==
    \A t \in LinkTexts :
        (JoinedLength(t.in) > 120 /\ WordsBefore(t.in, 120) = {}) =>
            t.out = Text(<<120>>, TRUE)

Regions == {"intro", "main"}

\* The link records of one region, in the order of the link list
RegionLinks(c, r) ==
    LET InRegion(link) == link.region = r
    IN  SelectSeq(crawl[c].links, InRegion)

\* C29: the link list is the intro links followed by the main links, and in
\* each region the k-th link record has position k, also when anchors
\* before it were skipped.
C29_Positions ==
    \A c \in ExtractedCrawls :
        /\ crawl[c].links = RegionLinks(c, "intro") \o RegionLinks(c, "main")
        /\ \A r \in Regions : \A k \in 1..Len(RegionLinks(c, r)) :
              RegionLinks(c, r)[k].position = k

\* The anchors of a region that have a link record
Recorded(c, r) ==
    {i \in 1..Len(crawl[c].page[r]) :
        \E k \in 1..Len(crawl[c].links) :
            crawl[c].links[k].region = r /\ crawl[c].links[k].position = i}

\* C30 as stated: an anchor whose href is empty, #, a javascript: href or one
\* that cannot be made an absolute URL has no link record, every other
\* anchor has one, and a region has as many records as it has other anchors.
C30_Original ==
    \A c \in ExtractedCrawls : \A r \in Regions :
        LET anchors == crawl[c].page[r]
            acceptable == {i \in 1..Len(anchors) :
                              /\ anchors[i].raw \notin {"empty", "hash", "javascript"}
                              /\ anchors[i].url.ok}
        IN  /\ Recorded(c, r) = acceptable
            /\ Len(RegionLinks(c, r)) = Cardinality(acceptable)

\* C30 amended: an anchor whose href is empty, #, a javascript: href or a
\* relative href that new URL(href, baseUrl) rejects has no link record,
\* every other anchor has exactly one, wherever it stands in the region; an
\* href that starts with http is kept as written, and when it does not
\* parse its record has the category invalid-url.
C30_Amended ==
    \A c \in ExtractedCrawls : \A r \in Regions :
        LET anchors == crawl[c].page[r]
            acceptable == {i \in 1..Len(anchors) :
                              /\ anchors[i].raw \notin {"empty", "hash", "javascript"}
                              /\ anchors[i].raw = "relative" => anchors[i].url.ok}
        IN  /\ Recorded(c, r) = acceptable
            /\ Len(RegionLinks(c, r)) = Cardinality(acceptable)
            /\ \A k \in 1..Len(RegionLinks(c, r)) :
                  LET link == RegionLinks(c, r)[k]
                  IN  /\ link.href = anchors[link.position].url
                      /\ ~link.href.ok => link.category = "invalid-url"

\* Reached: a region whose first anchor has a relative href that does not
\* resolve and whose second has an http href that does not parse gave one
\* link record, for the second anchor, with category invalid-url.
C30_Witness ==
    \E c \in ExtractedCrawls :
        LET anchors == crawl[c].page["intro"]
        IN  /\ Len(anchors) = 2
            /\ anchors[1].raw = "relative" /\ ~anchors[1].url.ok
            /\ anchors[2].raw = "absolute" /\ ~anchors[2].url.ok
            /\ Len(RegionLinks(c, "intro")) = 1
            /\ RegionLinks(c, "intro")[1].category = "invalid-url"
            /\ Recorded(c, "intro") = {2}

----------------------------------------------------------------------------
(* Properties of the single-URL error path (SpecSingle) *)

ErrorStatuses == {502, 504, 404, 500}

\* The single-URL requests whose page fetch failed
SeedFailed == {c \in Crawls : mode = "single" /\ resp[c].status \in ErrorStatuses}

C31_Fatal ==
    \A c \in SeedFailed :
        /\ crawl[c].pc = "done"
        /\ crawl[c].result.success = "false"
        /\ crawl[c].links = <<>> /\ crawl[c].vtasks = <<>> /\ crawl[c].atasks = <<>>
        /\ \A q \in 1..Len(linkQueue) : linkQueue[q][1] # c

C31_Step ==
    \A c \in Crawls :
        /\ resp[c].status # 0 => resp'[c] = resp[c]
        /\ c \in SeedFailed => crawl'[c] = crawl[c]

C32_StatusByClass ==
    mode = "single" =>
        \A c \in Crawls :
            /\ crawl[c].result.success = "false" =>
                  LET error == crawl[c].result.error
                  IN  resp[c].status =
                          CASE error.kind = "status" -> 502
                            [] error.kind # "status" /\ error.code = "ENOTFOUND" -> 404
                            [] error.kind = "noresponse" /\ error.code # "ENOTFOUND" -> 504
                            [] OTHER -> 500
            /\ urls[c] = NoUrl => (resp[c].status \in {0, 400} /\ crawl[c].pc \in {"idle", "done"})

----------------------------------------------------------------------------
(* Properties of the Checkers that read the page (SpecMatch) *)

TourCallSettled == call.fn = "checkTourActivityAvailability" /\ call.pc = "settled"
ShipCallSettled == call.fn = "checkCruiseShipAvailability" /\ call.pc = "settled"

\* Some option of the list, normalized, equals, contains or is contained in
\* the normalized path segment.
BucketHolds(options, path) ==
    \E i \in 1..Len(options) :
        LET o == normalizeForComparison(options[i])
            q == normalizeForComparison(path)
        IN  o = q \/ Includes(o, q) \/ Includes(q, o)

\* C33: without an index list the tour-activity Checker answers available
\* with empty option lists; with one, each of its two flags tells whether
\* its own bucket holds an option that equals, contains or is contained in
\* the path segment (both normalized), and available is their disjunction.
C33_TourActivity ==
    TourCallSettled =>
        IF ~call.page.hasIndexList
        THEN /\ call.result.available = TRUE
             /\ call.result.experienceOptions = <<>>
             /\ call.result.activityOptions = <<>>
        ELSE /\ call.result.isAvailableInExperience
                    = BucketHolds(call.page.experienceOptions, call.name)
             /\ call.result.isAvailableInActivity
                    = BucketHolds(call.page.activityOptions, call.name)
             /\ call.result.available
                    = (call.result.isAvailableInExperience
                          \/ call.result.isAvailableInActivity)

\* Reached: an index page whose experience option does not fit and whose
\* activity option contains the path segment without being equal to it.
C33_Witness ==
    /\ TourCallSettled
    /\ call.page.hasIndexList
    /\ call.name = <<"b">>
    /\ call.page.experienceOptions = <<<<"a">>>>
    /\ call.page.activityOptions = <<<<"a", "B">>>>
    /\ call.result.isAvailableInExperience = FALSE
    /\ call.result.isAvailableInActivity = TRUE
    /\ call.result.available = TRUE

\* The significant words of a normalized ship name
SignificantWords(name) ==
    LET Significant(w) == Len(w) > 2
    IN  SelectSeq(Split(normalizeShipName(name)), Significant)

\* The number of significant words of the URL name that contain or are
\* contained in some significant word of the option
MatchCount(urlName, optionName) ==
    LET u == SignificantWords(urlName)
        o == SignificantWords(optionName)
    IN  Cardinality({i \in 1..Len(u) :
            \E j \in 1..Len(o) : Includes(o[j], u[i]) \/ Includes(u[i], o[j])})

\* The normalized names are neither equal nor contained in one another.
Apart(urlName, optionName) ==
    LET u == normalizeShipName(urlName)
        o == normalizeShipName(optionName)
    IN  ~Includes(o, u) /\ ~Includes(u, o)

\* C34 as stated: when the normalized names are neither equal nor contained
\* in one another, the names match exactly when at least 60% of the
\* significant words of the URL name fit some significant word of the
\* option.
C34_Original ==
    ShipCallSettled =>
        LET urlName == call.name
            optionName == call.page.shipOptions[1]
        IN  (Apart(urlName, optionName) /\ Len(SignificantWords(urlName)) > 0) =>
                (call.result.available <=>
                    MatchCount(urlName, optionName) * 10
                        >= 6 * Len(SignificantWords(urlName)))

\* C34 amended: when the normalized names are neither equal nor contained
\* in one another, the names match exactly when both have a significant
\* word and the number of significant words of the URL name that fit some
\* significant word of the option is at least 60% of the smaller of the two
\* numbers of significant words.
C34_Amended ==
    ShipCallSettled =>
        LET urlName == call.name
            optionName == call.page.shipOptions[1]
            minWords == Min(Len(SignificantWords(urlName)),
                            Len(SignificantWords(optionName)))
        IN  Apart(urlName, optionName) =>
                (call.result.available <=>
                    (minWords > 0 /\ MatchCount(urlName, optionName) * 10 >= 6 * minWords))

\* Reached: one of the three significant words of the URL name fits the one
\* significant word of the option, and the names match.
C34_Witness ==
    /\ ShipCallSettled
    /\ call.name = Join(<<<<"W", "i", "n", "d">>, <<"S", "t", "a", "r">>,
                          <<"S", "e", "a">>>>, " ")
    /\ call.page.shipOptions = <<Join(<<<<"S", "t", "a", "r">>, <<"I", "I">>>>, " ")>>
    /\ Apart(call.name, call.page.shipOptions[1])
    /\ MatchCount(call.name, call.page.shipOptions[1]) = 1
    /\ call.result.available = TRUE

\* The option is the URL name preceded by a marine prefix and a space.
PrefixedOption ==
    \E p \in ShipPrefixes : call.page.shipOptions = <<p \o <<" ">> \o call.name>>

\* C35: an option that is the URL name preceded by a marine prefix matches
\* (Wind Star and M/S Wind Star), and Wind Star does not match Sea Cloud.
C35_MarinePrefix ==
    ShipCallSettled =>
        /\ PrefixedOption => call.result.available = TRUE
        /\ (/\ call.name = Join(<<<<"W", "i", "n", "d">>, <<"S", "t", "a", "r">>>>, " ")
            /\ call.page.shipOptions
                  = <<Join(<<<<"S", "e", "a">>, <<"C", "l", "o", "u", "d">>>>, " ")>>)
              => call.result.available = FALSE

\* Reached: Wind Star was matched with M/S Wind Star.
C35_Witness ==
    /\ ShipCallSettled
    /\ call.name = Join(<<<<"W", "i", "n", "d">>, <<"S", "t", "a", "r">>>>, " ")
    /\ call.page.shipOptions = <<<<"M", "/", "S", " ">> \o call.name>>
    /\ call.result.available = TRUE

----------------------------------------------------------------------------
(* Termination (SpecLive, SpecSingleLive) *)

\* Every task of every crawl has started and settled, both gates are empty,
\* every crawl that was started has finished and the request has its
\* response.
Quiescent ==
    /\ linkQueue = <<>> /\ linkActive = 0
    /\ batchQueue = <<>> /\ batchActive = 0
    /\ \A c \in Crawls :
          /\ crawl[c].pc \in {"idle", "done"}
          /\ AllSettled(crawl[c].vtasks) /\ AllSettled(crawl[c].atasks)
    /\ \A r \in DOMAIN resp : resp[r].status # 0
    /\ \A c \in Crawls : resp[1].status = 200 => crawl[c].pc = "done"

ResponseKept == \A r \in DOMAIN resp : resp[r].status # 0 => resp'[r] = resp[r]

\* C36: when every outbound call ends, every task queued in the link gate
\* starts and settles, every crawl finishes and the request gets its
\* response, exactly one; no crawl waits forever, in a batch slot or for
\* one.
C36_Termination == <>[]Quiescent /\ [][ResponseKept]_vars

\* Reached: both batch slots are taken, a third crawl waits for one, the
\* five link slots are taken and further link tasks are queued.
C36_Witness ==
    /\ batchActive = BatchConcurrencyLimit /\ batchQueue # <<>>
    /\ linkActive = ConcurrencyLimit /\ linkQueue # <<>>

----------------------------------------------------------------------------
(* Links without Validator and Checker (SpecSingle) *)

UncheckedCategories ==
    {"multi-level/articles/article-name", "multi-level/stories", "operator-with-id",
     "other", "invalid-url"}

Unpopulated == {Undefined, Null}

NoValidationField(link) ==
    /\ link.valid \in Unpopulated
    /\ link.status \in {UndefinedStatus, NullStatus}
    /\ link.redirected \in Unpopulated
    /\ link.resolvedUrl \in Unpopulated
    /\ link.validationError \in Unpopulated

NoAvailabilityField(link) ==
    link.available \in Unpopulated /\ link.availabilityError \in Unpopulated

TasksOfCrawl(c) ==
    {crawl[c].vtasks[k] : k \in 1..Len(crawl[c].vtasks)}
        \cup {crawl[c].atasks[k] : k \in 1..Len(crawl[c].atasks)}

\* C37: a link of a category without Validator and Checker is the link of
\* no task, so no request goes out for it, and none of its validation and
\* availability fields is ever populated; a link with a populated
\* validation field is of a category that has a Validator.
C37_Unchecked ==
    \A c \in Crawls : \A i \in 1..Len(crawl[c].links) :
        LET link == crawl[c].links[i]
        IN  /\ link.category \in UncheckedCategories =>
                  /\ \A t \in TasksOfCrawl(c) : t.link # i
                  /\ NoValidationField(link)
                  /\ NoAvailabilityField(link)
            /\ ~NoValidationField(link) =>
                  \/ link.category \in ValidatorCategories
                  \/ IsDestination(link.category)

\* Reached: an audit has finished whose page had an article link, an
\* operator link, a link of the fallback category and an absolute href that
\* does not parse; another audit has finished with a validated link.
C37_Witness ==
    /\ \E c \in Crawls :
          /\ crawl[c].pc = "done"
          /\ \A cat \in UncheckedCategories \ {"multi-level/stories"} :
                \E i \in 1..Len(crawl[c].links) : crawl[c].links[i].category = cat
    /\ \E c \in Crawls :
          /\ crawl[c].pc = "done"
          /\ \E i \in 1..Len(crawl[c].links) : crawl[c].links[i].valid = "true"

----------------------------------------------------------------------------
(* The counts of a single-URL response (SpecSingle) *)

Audited == {c \in Crawls : mode = "single" /\ resp[c].status = 200}

RECURSIVE SumValues(_)
SumValues(obj) ==
    IF DOMAIN obj = {} THEN 0
    ELSE LET key == CHOOSE k \in DOMAIN obj : TRUE
         IN  obj[key] + SumValues([k \in DOMAIN obj \ {key} |-> obj[k]])

AllCounts(obj) == \A key \in DOMAIN obj : obj[key] \in Nat

Lengths(obj) == [key \in DOMAIN obj |-> Len(obj[key])]

----------------------------------------------------------------------------
(* The stat blocks of a single-URL response (SpecSingle) *)

BlockOf(stats, block) ==
    stats.blocks[CHOOSE b \in 1..Len(ValidationBlocks) : ValidationBlocks[b] = block]

ValidatorBlocks == (ValidatorCategories \cup {"destination"}) \ {"wrong-contact-path"}

\* C39: in every success response the stat block of a Validator category
\* has valid + invalid = total and redirected <= invalid, the block of a
\* category that also has a Checker has available + unavailable = valid,
\* and the block of wrong-contact-path has valid = available = unavailable
\* = 0 and invalid = total.
C39_StatBlocks ==
    \A c \in Audited :
        LET stats == resp[c].stats
        IN  /\ \A block \in ValidatorBlocks :
                  /\ BlockOf(stats, block).valid + BlockOf(stats, block).invalid
                        = BlockOf(stats, block).total
                  /\ BlockOf(stats, block).redirected <= BlockOf(stats, block).invalid
            /\ \A block \in CheckerCategories :
                  BlockOf(stats, block).available + BlockOf(stats, block).unavailable
                      = BlockOf(stats, block).valid
            /\ LET wrong == BlockOf(stats, "wrong-contact-path")
               IN  /\ wrong.valid = 0 /\ wrong.available = 0 /\ wrong.unavailable = 0
                   /\ wrong.invalid = wrong.total

\* Reached: responses whose blocks count a valid and available link, a
\* valid and unavailable one, a redirected one and a wrong-contact-path
\* link whose GET answered 200.
C39_Witness ==
    /\ \E c \in Audited : \E block \in CheckerCategories :
          /\ BlockOf(resp[c].stats, block).available > 0
    /\ \E c \in Audited : \E block \in CheckerCategories :
          /\ BlockOf(resp[c].stats, block).unavailable > 0
    /\ \E c \in Audited : \E block \in ValidatorBlocks :
          /\ BlockOf(resp[c].stats, block).redirected > 0
    /\ \E c \in Audited :
          /\ BlockOf(resp[c].stats, "wrong-contact-path").total > 0
          /\ \E k \in 1..Len(crawl[c].vtasks) :
                crawl[c].vtasks[k].type = "wrong-contact-path"
                    /\ crawl[c].vtasks[k].http = 200

----------------------------------------------------------------------------
(* Input validation of the batch route (Spec) *)

Rejected == bodyKind # "ok" \/ \E i \in 1..Len(urls) : ~urls[i].ok

\* C40: a batch request without a urls array, or with a url that does not
\* parse, is answered 400 and none of its urls is ever fetched, the valid
\* ones included; a request with an empty urls array is answered 200 with
\* totalUrls = 0, no result, no failure and averageLinksPerUrl = 0.
C40_AllOrNothing ==
    mode = "batch" =>
        /\ Rejected =>
              /\ \A c \in Crawls : crawl[c].pc = "idle"
              /\ batchQueue = <<>> /\ batchActive = 0
              /\ hpc = "done" => resp[1].status = 400
              /\ hpc # "done" => resp[1].status = 0
        /\ (bodyKind = "ok" /\ urls = <<>> /\ hpc = "done") =>
              /\ resp[1].status = 200
              /\ resp[1].totalUrls = 0
              /\ resp[1].results = <<>> /\ resp[1].failures = <<>>
              /\ resp[1].averageLinksPerUrl = 0

\* Reached: a request whose urls array holds a valid url and one that does
\* not parse has been answered.
C40_Witness ==
    /\ mode = "batch" /\ hpc = "done" /\ bodyKind = "ok"
    /\ \E i \in 1..Len(urls) : urls[i].ok
    /\ \E i \in 1..Len(urls) : ~urls[i].ok
    /\ resp[1].status = 400

====
